---- MODULE Spec2Model ----
(***************************************************************************)
(* A model of the Dictu single-pass compiler (compiler.c): the compiler    *)
(* chain with its locals, scopes, upvalues, loops and chunks, the Pratt    *)
(* expression parser, the statement-level `{` lookahead and the string     *)
(* escape decoder.                                                         *)
(***************************************************************************)
EXTENDS Integers, Sequences, FiniteSets, TLC

(***************************************************************************)
(* Bounds of the model.                                                    *)
(***************************************************************************)
MaxCode == 14
MaxLocals == 4
MaxDepth == 2
MaxFns == 3
MaxAtoms == 2
MaxSteps == 7

Names == {"a", "b"}

\* The superclass clause of a class declaration: none, or `< a`.
SuperNames == {"", "a"}

(***************************************************************************)
(* Program constants.                                                      *)
(***************************************************************************)
UINT8_MAX == 255
UINT8_COUNT == 256
UINT16_MAX == 65535

\* The instructions, numbered in the order of the instruction set.
OpNames ==
    <<"OP_CONSTANT", "OP_NIL", "OP_EMPTY", "OP_TRUE", "OP_FALSE", "OP_NEW_LIST",
      "OP_ADD_LIST", "OP_NEW_DICT", "OP_ADD_DICT", "OP_SUBSCRIPT", "OP_SUBSCRIPT_ASSIGN",
      "OP_SLICE", "OP_PUSH", "OP_POP", "OP_POP_REPL", "OP_GET_LOCAL", "OP_SET_LOCAL",
      "OP_GET_GLOBAL", "OP_DEFINE_GLOBAL", "OP_DEFINE_OPTIONAL", "OP_SET_GLOBAL",
      "OP_GET_UPVALUE", "OP_SET_UPVALUE", "OP_GET_PROPERTY", "OP_GET_PROPERTY_NO_POP",
      "OP_SET_PROPERTY", "OP_GET_SUPER", "OP_EQUAL", "OP_GREATER", "OP_LESS", "OP_ADD",
      "OP_INCREMENT", "OP_DECREMENT", "OP_MULTIPLY", "OP_DIVIDE", "OP_POW", "OP_MOD",
      "OP_BITWISE_AND", "OP_BITWISE_XOR", "OP_BITWISE_OR", "OP_NOT", "OP_NEGATE",
      "OP_JUMP", "OP_JUMP_IF_FALSE", "OP_LOOP", "OP_BREAK", "OP_IMPORT", "OP_CALL",
      "OP_INVOKE", "OP_SUPER", "OP_CLOSURE", "OP_CLOSE_UPVALUE", "OP_RETURN", "OP_CLASS",
      "OP_SUBCLASS", "OP_TRAIT", "OP_METHOD", "OP_TRAIT_METHOD", "OP_USE", "OP_OPEN_FILE",
      "OP_CLOSE_FILE">>

\* The byte of each instruction: its position in the enum, from 0.
OpCode ==
    [name \in {OpNames[i] : i \in DOMAIN OpNames} |->
        (CHOOSE i \in DOMAIN OpNames : OpNames[i] = name) - 1]

\* Compile error messages.
MsgOwnInit == "Cannot read local variable in its own initializer."
MsgDup == "Variable with this name already declared in this scope."
MsgLocals == "Too many local variables in function."
MsgUpvalues == "Too many closure variables in function."
MsgConstants == "Too many constants in one chunk."
MsgThis == "Cannot utilise 'this' outside of a class."
MsgThisStatic == "Cannot utilise 'this' inside a static method."
MsgSuper == "Cannot utilise 'super' outside of a class."
MsgSuperNone == "Cannot utilise 'super' in a class with no superclass."
MsgBreak == "Cannot utilise 'break' outside of a loop."
MsgContinue == "Cannot utilise 'continue' outside of a loop."
MsgReturnTop == "Cannot return from top-level code."
MsgJump == "Too much code to jump over."
MsgLoop == "Loop body too large."
MsgExpression == "Expect expression."
MsgTarget == "Invalid assignment target."
MsgProperty == "Expect property name after '.'."
MsgVariable == "Expected variable"
MsgSemicolon == "Expect ';' after expression."
MsgColon == "Expected ':'"
MsgDictBrace == "Expected closing '}'"
MsgBlock == "Expect '}' after block."
MsgBracket == "Expected closing ']'"
MsgParameter == "Expect parameter name."
MsgNonOptional == "Cannot have non-optional parameter after optional."
MsgParameters == "Cannot have more than 255 parameters."
MsgParen == "Expect '(' after function name."
MsgParenEnd == "Expect ')' after parameters."
MsgBody == "Expect '{' before function body."
MsgFunction == "Expect function name."
\* The message of a TOKEN_ERROR token, which the scanner supplies.
MsgScan == "Unexpected character."

VARIABLES
    comps,      \* the compiler chain, outermost first: comps[Len(comps)] is vm->compiler
    parser,     \* Parser: hadError, panicMode, and the messages the last step printed
    loops,      \* the Loop records reachable from compiler->loop, innermost last
    classes,    \* the ClassCompiler records reachable from compiler->class, innermost last
    ctx,        \* the parser's call stack: the statements being compiled, innermost last
    breaks,     \* where each `break` of a loop still open was compiled: its loop, its
                \* compiler (0 once that function's chunk is finished) and its OP_BREAK byte
    last,       \* the operation the last step performed, and how it resolved the name
                \* it referenced
    steps,      \* the number of steps taken
    src,        \* the source text given to a single function under study
    out,        \* what that function returned
    vm          \* the VM: compiler is vm->compiler, an index into comps, 0 for NULL

vars == <<comps, parser, loops, classes, ctx, breaks, last, steps, src, out, vm>>

(***************************************************************************)
(* A machine is the part of the state the compiler's helpers thread        *)
(* through: the compiler chain, the parser, the value returned, the tokens *)
(* of the statement with the position of parser->current, the lexeme of    *)
(* parser->previous, and a log of the assignment targets met.              *)
(***************************************************************************)
Machine(cs, p) ==
    [cs |-> cs, p |-> p, r |-> 0, toks |-> <<>>, pos |-> 1, prev |-> "", log |-> {}]

Ret(m, v) == [m EXCEPT !.r = v]

Cur(m) == Len(m.cs)

\* errorAt without the test of panicMode.
ErrorUnsuppressed(m, msg) ==
    [m EXCEPT !.p = [hadError |-> TRUE, panicMode |-> TRUE, msgs |-> Append(m.p.msgs, msg)]]

\* errorAt: the first error of a panic prints and sets hadError; later ones are dropped.
Error(m, msg) ==
    IF m.p.panicMode THEN m
    ELSE [m EXCEPT !.p = [hadError |-> TRUE, panicMode |-> TRUE,
                          msgs |-> Append(m.p.msgs, msg)]]

EmitByte(m, k, byte) == [m EXCEPT !.cs[k].code = Append(@, byte % 256)]

EmitBytes(m, k, byte1, byte2) == EmitByte(EmitByte(m, k, byte1), k, byte2)

\* The values the compiler puts in a constant pool.
StringVal(chars) == [kind |-> "string", name |-> chars, code |-> <<>>]

NumberVal(n) == [kind |-> "number", name |-> n, code |-> <<>>]

FunctionVal(name, code) == [kind |-> "function", name |-> name, code |-> code]

\* The string object of a string literal, its bytes decoded.
LiteralVal(bytes) == [kind |-> "literal", name |-> "", code |-> bytes]

\* addConstant appends the value to the chunk's pool and returns its index.
AddConstant(m, k, value) ==
    Ret([m EXCEPT !.cs[k].constants = Append(@, value)], Len(m.cs[k].constants))

MakeConstant(m, k, value) ==
    LET m1 == AddConstant(m, k, value)
    IN  IF m1.r > UINT8_MAX THEN Ret(Error(m1, MsgConstants), 0) ELSE m1

\* identifierConstant without the lookup in stringConstants.
IdentifierConstantUncached(m, k, name) ==
    LET m1 == MakeConstant(m, k, StringVal(name))
    IN  [m1 EXCEPT !.cs[k].stringConstants = (name :> m1.r) @@ @]

IdentifierConstant(m, k, name) ==
    IF name \in DOMAIN m.cs[k].stringConstants
    THEN Ret(m, m.cs[k].stringConstants[name])
    ELSE LET m1 == MakeConstant(m, k, StringVal(name))
         IN  [m1 EXCEPT !.cs[k].stringConstants = (name :> m1.r) @@ @]

\* The newest local with this name, as a slot index from 0, or -1.
RECURSIVE LocalIndex(_, _, _)
LocalIndex(locals, name, i) ==
    IF i < 0 THEN -1
    ELSE IF locals[i + 1].name = name THEN i
    ELSE LocalIndex(locals, name, i - 1)

\* resolveLocal without the test of the local's depth.
ResolveLocalUnchecked(m, k, name, inFunction) ==
    Ret(m, LocalIndex(m.cs[k].locals, name, Len(m.cs[k].locals) - 1))

ResolveLocal(m, k, name, inFunction) ==
    LET i == LocalIndex(m.cs[k].locals, name, Len(m.cs[k].locals) - 1)
    IN  IF i # -1 /\ ~inFunction /\ m.cs[k].locals[i + 1].depth = -1
        THEN Ret(Error(m, MsgOwnInit), i)
        ELSE Ret(m, i)

RECURSIVE UpvalueIndex(_, _, _, _)
UpvalueIndex(upvalues, index, isLocal, i) ==
    IF i >= Len(upvalues) THEN -1
    ELSE IF upvalues[i + 1].index = index /\ upvalues[i + 1].isLocal = isLocal THEN i
    ELSE UpvalueIndex(upvalues, index, isLocal, i + 1)

\* addUpvalue recording every capture as one of an enclosing upvalue.
AddUpvalueFlagDropped(m, k, index, isLocal) ==
    LET upvalueCount == Len(m.cs[k].upvalues)
        found == UpvalueIndex(m.cs[k].upvalues, index, FALSE, 0)
    IN  IF found # -1 THEN Ret(m, found)
        ELSE Ret([m EXCEPT !.cs[k].upvalues = Append(@, [index |-> index, isLocal |-> FALSE])],
                 upvalueCount)

AddUpvalue(m, k, index, isLocal) ==
    LET upvalueCount == Len(m.cs[k].upvalues)
        found == UpvalueIndex(m.cs[k].upvalues, index, isLocal, 0)
    IN  IF found # -1 THEN Ret(m, found)
        ELSE IF upvalueCount = UINT8_COUNT THEN Ret(Error(m, MsgUpvalues), 0)
        ELSE Ret([m EXCEPT !.cs[k].upvalues =
                      Append(@, [index |-> index, isLocal |-> isLocal])],
                 upvalueCount)

RECURSIVE ResolveUpvalue(_, _, _)
ResolveUpvalue(m, k, name) ==
    IF k = 1 THEN Ret(m, -1)
    ELSE LET l == ResolveLocal(m, k - 1, name, TRUE)
         IN  IF l.r # -1
             THEN AddUpvalue([l EXCEPT !.cs[k - 1].locals[l.r + 1].isUpvalue = TRUE],
                             k, l.r % 256, TRUE)
             ELSE LET u == ResolveUpvalue(l, k - 1, name)
                  IN  IF u.r # -1 THEN AddUpvalue(u, k, u.r % 256, FALSE)
                      ELSE Ret(u, -1)

AddLocal(m, k, name) ==
    IF Len(m.cs[k].locals) = UINT8_COUNT THEN Error(m, MsgLocals)
    ELSE [m EXCEPT !.cs[k].locals =
              Append(@, [name |-> name, depth |-> -1, isUpvalue |-> FALSE])]

\* Whether the scan of declareVariable meets a local of the current scope with this name.
RECURSIVE Redeclared(_, _, _, _)
Redeclared(locals, name, scopeDepth, i) ==
    IF i < 0 THEN FALSE
    ELSE IF locals[i + 1].depth # -1 /\ locals[i + 1].depth < scopeDepth THEN FALSE
    ELSE locals[i + 1].name = name \/ Redeclared(locals, name, scopeDepth, i - 1)

DeclareVariable(m, k, name) ==
    IF m.cs[k].scopeDepth = 0 THEN m
    ELSE AddLocal(IF Redeclared(m.cs[k].locals, name, m.cs[k].scopeDepth,
                                Len(m.cs[k].locals) - 1)
                  THEN Error(m, MsgDup) ELSE m,
                  k, name)

ParseVariable(m, k, name) ==
    IF m.cs[k].scopeDepth = 0 THEN IdentifierConstant(m, k, name)
    ELSE Ret(DeclareVariable(m, k, name), 0)

DefineVariable(m, k, global) ==
    IF m.cs[k].scopeDepth = 0 THEN EmitBytes(m, k, OpCode.OP_DEFINE_GLOBAL, global)
    ELSE [m EXCEPT !.cs[k].locals[Len(m.cs[k].locals)].depth = m.cs[k].scopeDepth]

BeginScope(m, k) == [m EXCEPT !.cs[k].scopeDepth = @ + 1]

RECURSIVE EndScopeLoop(_, _)
EndScopeLoop(m, k) ==
    LET c == m.cs[k]
        n == Len(c.locals)
    IN  IF n > 0 /\ c.locals[n].depth > c.scopeDepth
        THEN EndScopeLoop(
                 [EmitByte(m, k, IF c.locals[n].isUpvalue THEN OpCode.OP_CLOSE_UPVALUE
                                 ELSE OpCode.OP_POP)
                     EXCEPT !.cs[k].locals = SubSeq(c.locals, 1, n - 1)],
                 k)
        ELSE m

EndScope(m, k) == EndScopeLoop([m EXCEPT !.cs[k].scopeDepth = @ - 1], k)

\* How a name was resolved: the kind of variable, the operand of its instruction, and
\* whether the parser was in panic mode when the resolution began.
Res(m, kind, arg) == [kind |-> kind, arg |-> arg, panic |-> m.p.panicMode]

AsGlobal(g, m) == Ret(g, Res(m, "global", g.r))

AsUpvalue(u, m, name) ==
    IF u.r # -1 THEN Ret(u, Res(m, "upvalue", u.r))
    ELSE AsGlobal(IdentifierConstant(u, Cur(m), name), m)

AsLocal(l, m, name) ==
    IF l.r # -1 THEN Ret(l, Res(m, "local", l.r))
    ELSE AsUpvalue(ResolveUpvalue(l, Cur(m), name), m, name)

\* The variable resolution of namedVariable: a local, else an upvalue, else a global.
ResolveVariable(m, name) == AsLocal(ResolveLocal(m, Cur(m), name, FALSE), m, name)

GetOp(kind) ==
    CASE kind = "local" -> OpCode.OP_GET_LOCAL
      [] kind = "upvalue" -> OpCode.OP_GET_UPVALUE
      [] OTHER -> OpCode.OP_GET_GLOBAL

Count(m, k) == Len(m.cs[k].code)

EmitLoop(m, k, loopStart) ==
    LET m1 == EmitByte(m, k, OpCode.OP_LOOP)
        offset == Count(m1, k) - loopStart + 2
        m2 == IF offset > UINT16_MAX THEN Error(m1, MsgLoop) ELSE m1
    IN  EmitBytes(m2, k, (offset \div 256) % 256, offset % 256)

\* Returns the index of the first placeholder byte.
EmitJump(m, k, instruction) ==
    LET m1 == EmitByte(EmitByte(EmitByte(m, k, instruction), k, 255), k, 255)
    IN  Ret(m1, Count(m1, k) - 2)

PatchJump(m, k, offset) ==
    LET jump == Count(m, k) - offset - 2
        m1 == IF jump > UINT16_MAX THEN Error(m, MsgJump) ELSE m
    IN  [m1 EXCEPT !.cs[k].code[offset + 1] = (jump \div 256) % 256,
                   !.cs[k].code[offset + 2] = jump % 256]

SetOp(kind) ==
    CASE kind = "local" -> OpCode.OP_SET_LOCAL
      [] kind = "upvalue" -> OpCode.OP_SET_UPVALUE
      [] OTHER -> OpCode.OP_SET_GLOBAL

(***************************************************************************)
(* Tokens and the expression parser.  A token is its lexeme; the scanner   *)
(* returns the tokens of the statement in order and then TOKEN_EOF.        *)
(***************************************************************************)
\* The names of the parameters of a long parameter list.
MaxParams == 257

ParamName(i) == "p" \o ToString(i)

ParamNames == {ParamName(i) : i \in 1..MaxParams}

TokenType(lexeme) ==
    IF lexeme \in Names \/ lexeme \in ParamNames THEN "IDENTIFIER"
    ELSE IF lexeme = "'k'" THEN "STRING" ELSE lexeme

\* The bytes between the quotes of a string token.
Content(lexeme) == IF lexeme = "'k'" THEN <<107>> ELSE <<>>

CurTok(m) == IF m.pos <= Len(m.toks) THEN m.toks[m.pos] ELSE "EOF"

\* The loop of advance: a TOKEN_ERROR token is reported and the next one is scanned.
RECURSIVE SkipErrors(_)
SkipErrors(m) ==
    IF CurTok(m) = "ERROR" THEN SkipErrors(Error([m EXCEPT !.pos = @ + 1], MsgScan)) ELSE m

Advance(m) ==
    SkipErrors([m EXCEPT !.prev = CurTok(m), !.pos = IF @ <= Len(m.toks) THEN @ + 1 ELSE @])

Check(m, type) == TokenType(CurTok(m)) = type

Match(m, type) == IF Check(m, type) THEN Ret(Advance(m), TRUE) ELSE Ret(m, FALSE)

Consume(m, type, message) == IF Check(m, type) THEN Advance(m) ELSE Error(m, message)

\* The precedence levels, lowest first.
PrecedenceNames ==
    <<"PREC_NONE", "PREC_ASSIGNMENT", "PREC_OR", "PREC_AND", "PREC_EQUALITY",
      "PREC_COMPARISON", "PREC_BITWISE_OR", "PREC_BITWISE_XOR", "PREC_BITWISE_AND",
      "PREC_TERM", "PREC_FACTOR", "PREC_INDICES", "PREC_UNARY", "PREC_CALL",
      "PREC_PRIMARY">>

\* The value of each level: its position in the enum, from 0.
Precedence ==
    [name \in {PrecedenceNames[i] : i \in DOMAIN PrecedenceNames} |->
        (CHOOSE i \in DOMAIN PrecedenceNames : PrecedenceNames[i] = name) - 1]

Rule(prefix, infix, precedence) ==
    [prefix |-> prefix, infix |-> infix, precedence |-> precedence]

\* rules[], for the tokens of the model.
GetRule(type) ==
    CASE type = "." -> Rule("NULL", "dot", Precedence.PREC_CALL)
      [] type = "-" -> Rule("unary", "binary", Precedence.PREC_TERM)
      [] type = "+" -> Rule("NULL", "binary", Precedence.PREC_TERM)
      [] type \in {"++", "--"} -> Rule("prefix", "NULL", Precedence.PREC_NONE)
      [] type = "*" -> Rule("NULL", "binary", Precedence.PREC_FACTOR)
      [] type = "**" -> Rule("NULL", "binary", Precedence.PREC_INDICES)
      [] type = "!" -> Rule("unary", "NULL", Precedence.PREC_NONE)
      [] type = "{" -> Rule("dict", "NULL", Precedence.PREC_NONE)
      [] type = "[" -> Rule("list", "subscript", Precedence.PREC_CALL)
      [] type = "IDENTIFIER" -> Rule("variable", "NULL", Precedence.PREC_NONE)
      [] type = "STRING" -> Rule("string", "NULL", Precedence.PREC_NONE)
      [] type = "and" -> Rule("NULL", "and_", Precedence.PREC_AND)
      [] type = "or" -> Rule("NULL", "or_", Precedence.PREC_OR)
      [] OTHER -> Rule("NULL", "NULL", Precedence.PREC_NONE)

\* A target followed by `=`: the rule that parsed it, the canAssign the rule was given,
\* whether an assignment was compiled for it, and whether the parser was in panic mode.
Logged(m, before, rule, canAssign) ==
    IF Check(before, "=")
    THEN [m EXCEPT !.log = @ \cup {[rule |-> rule, low |-> canAssign,
                                    assigned |-> m.pos > before.pos,
                                    panic |-> before.p.panicMode]}]
    ELSE m

\* memmove(&string[dst], &string[from], n) on a buffer indexed from 0.
MemMove(string, dst, from, n) ==
    [j \in 1..Len(string) |->
        IF j - 1 >= dst /\ j - 1 < dst + n THEN string[j + from - dst] ELSE string[j]]

\* The byte an escape letter denotes, or -1.
Escape(byte) ==
    CASE byte = 110 -> 10
      [] byte = 116 -> 9
      [] byte = 114 -> 13
      [] byte = 118 -> 11
      [] byte \in {39, 34} -> byte
      [] OTHER -> -1

\* The loop of parseString, at index i.
RECURSIVE ParseStringLoop(_, _, _)
ParseStringLoop(string, length, i) ==
    IF i >= length - 1 THEN [string |-> string, length |-> length]
    ELSE IF string[i + 1] = 92 /\ Escape(string[i + 2]) # -1
    THEN ParseStringLoop(MemMove([string EXCEPT ![i + 2] = Escape(string[i + 2])],
                                 i, i + 1, length - i),
                         length - 1, i + 1)
    ELSE ParseStringLoop(string, length, i + 1)

ParseString(string, length) == ParseStringLoop(string, length, 0)

\* string(): the token's content is copied into a buffer one byte longer, whose last byte
\* (pad) is not initialised, decoded in place, and made a constant.
StringToken(m, content, pad) ==
    LET k == Cur(m)
        d == ParseString(Append(content, pad), Len(content))
        c == MakeConstant(m, k, LiteralVal(SubSeq(d.string, 1, d.length)))
    IN  EmitBytes(c, k, OpCode.OP_CONSTANT, c.r)

RECURSIVE ParsePrecedence(_, _)

Expression(m) == ParsePrecedence(m, Precedence.PREC_ASSIGNMENT)

\* The assignment operators: `=` and the compound ones.
AssignOps == {"=", "+=", "-=", "*=", "/=", "&=", "^=", "|="}

\* The instruction a compound assignment emits after its right-hand expression.
CompoundEmit(e, k, operatorType) ==
    CASE operatorType = "+=" -> EmitByte(e, k, OpCode.OP_ADD)
      [] operatorType = "-=" -> EmitBytes(e, k, OpCode.OP_NEGATE, OpCode.OP_ADD)
      [] operatorType = "*=" -> EmitByte(e, k, OpCode.OP_MULTIPLY)
      [] operatorType = "/=" -> EmitByte(e, k, OpCode.OP_DIVIDE)
      [] operatorType = "&=" -> EmitByte(e, k, OpCode.OP_BITWISE_AND)
      [] operatorType = "^=" -> EmitByte(e, k, OpCode.OP_BITWISE_XOR)
      [] operatorType = "|=" -> EmitByte(e, k, OpCode.OP_BITWISE_OR)
      [] OTHER -> e

\* namedVariable(name, false): the name is resolved and read.
NamedVariableGet(v, k) == Ret(EmitBytes(v, k, GetOp(v.r.kind), v.r.arg), v.r)

\* After a compound operator namedVariable compiles a read of the name; after `=` nothing.
NamedVariableRead(a, k, name, operatorType) ==
    IF operatorType = "=" THEN a ELSE NamedVariableGet(ResolveVariable(a, name), k)

\* namedVariable once the name is resolved: the assignment, or the read.
NamedVariableEmit(v, k, name, canAssign) ==
    IF canAssign /\ CurTok(v) \in AssignOps
    THEN Ret(EmitBytes(CompoundEmit(Expression(NamedVariableRead(Advance(v), k, name,
                                                                 CurTok(v))),
                                    k, CurTok(v)),
                       k, SetOp(v.r.kind), v.r.arg),
             v.r)
    ELSE NamedVariableGet(v, k)

\* namedVariable; returns how the name was resolved.
NamedVariable(m, name, canAssign) ==
    NamedVariableEmit(ResolveVariable(m, name), Cur(m), name, canAssign)

Variable(m, canAssign) ==
    Logged(NamedVariable(m, m.prev, canAssign), m, "variable", canAssign)

\* After a compound operator dot reads the property and keeps the instance; after `=`
\* nothing.
DotRead(a, k, name, operatorType) ==
    IF operatorType = "=" THEN a ELSE EmitBytes(a, k, OpCode.OP_GET_PROPERTY_NO_POP, name)

\* dot once the property name is a constant: the assignment, or the read (the tokens of
\* the model hold no `(`, so no method is invoked).
DotAccess(name, k, canAssign) ==
    IF canAssign /\ CurTok(name) \in AssignOps
    THEN EmitBytes(CompoundEmit(Expression(DotRead(Advance(name), k, name.r, CurTok(name))),
                                k, CurTok(name)),
                   k, OpCode.OP_SET_PROPERTY, name.r)
    ELSE EmitBytes(name, k, OpCode.OP_GET_PROPERTY, name.r)

Dot(m, canAssign) ==
    LET c == Consume(m, "IDENTIFIER", MsgProperty)
    IN  Logged(DotAccess(IdentifierConstant(c, Cur(m), c.prev), Cur(m), canAssign),
               c, "dot", canAssign)

And_(m, canAssign) ==
    LET k == Cur(m)
        endJump == EmitJump(m, k, OpCode.OP_JUMP_IF_FALSE)
    IN  PatchJump(ParsePrecedence(EmitByte(endJump, k, OpCode.OP_POP), Precedence.PREC_AND),
                  k, endJump.r)

Or_(m, canAssign) ==
    LET k == Cur(m)
        elseJump == EmitJump(m, k, OpCode.OP_JUMP_IF_FALSE)
        endJump == EmitJump(elseJump, k, OpCode.OP_JUMP)
    IN  PatchJump(ParsePrecedence(EmitByte(PatchJump(endJump, k, elseJump.r), k,
                                           OpCode.OP_POP),
                                  Precedence.PREC_OR),
                  k, endJump.r)

\* The instruction of a binary operator, after its right operand.
BinaryEmit(e, k, operatorType) ==
    CASE operatorType = "+" -> EmitByte(e, k, OpCode.OP_ADD)
      [] operatorType = "-" -> EmitBytes(e, k, OpCode.OP_NEGATE, OpCode.OP_ADD)
      [] operatorType = "*" -> EmitByte(e, k, OpCode.OP_MULTIPLY)
      [] operatorType = "**" -> EmitByte(e, k, OpCode.OP_POW)
      [] OTHER -> e

Binary(m, canAssign) ==
    BinaryEmit(ParsePrecedence(m, GetRule(TokenType(m.prev)).precedence + 1), Cur(m),
               TokenType(m.prev))

\* The instruction of a unary operator, after its operand.
UnaryEmit(e, k, operatorType) ==
    CASE operatorType = "!" -> EmitByte(e, k, OpCode.OP_NOT)
      [] operatorType = "-" -> EmitByte(e, k, OpCode.OP_NEGATE)
      [] OTHER -> e

Unary(m, canAssign) ==
    UnaryEmit(ParsePrecedence(m, Precedence.PREC_UNARY), Cur(m), TokenType(m.prev))

\* prefix after its operand is read: the property access, if a `.` follows; returns
\* whether the operand is a property, and the constant of the property's name.
PrefixProperty(n, k) ==
    IF Check(n, ".")
    THEN LET p == Consume(Advance(n), "IDENTIFIER", MsgProperty)
             i == IdentifierConstant(p, k, p.prev)
         IN  Ret(EmitBytes(i, k, OpCode.OP_GET_PROPERTY_NO_POP, i.r),
                 [instance |-> TRUE, arg |-> i.r])
    ELSE Ret(n, [instance |-> FALSE, arg |-> 0])

PrefixSet(s, k) == EmitBytes(s, k, SetOp(s.r.kind), s.r.arg)

\* prefix from the switch on: the step, and the store into the property or the variable.
PrefixStep(f, k, operatorType, cur) ==
    LET g == EmitByte(f, k, IF operatorType = "++" THEN OpCode.OP_INCREMENT
                            ELSE OpCode.OP_DECREMENT)
    IN  IF f.r.instance THEN EmitBytes(g, k, OpCode.OP_SET_PROPERTY, f.r.arg)
        ELSE PrefixSet(ResolveVariable(g, cur), k)

Prefix(m, canAssign) ==
    LET c == Consume(m, "IDENTIFIER", MsgVariable)
    IN  PrefixStep(PrefixProperty(Logged(NamedVariable(c, c.prev, TRUE), c, "prefix",
                                         canAssign),
                                  Cur(m)),
                   Cur(m), TokenType(m.prev), CurTok(m))

\* The entries of a dict literal, up to its closing brace.
RECURSIVE DictItems(_)
\* dict after an item: the next item, if a comma follows.
DictNext(m) == IF Check(m, ",") THEN DictItems(Advance(m)) ELSE m

DictItems(m) ==
    IF Check(m, "}") THEN m
    ELSE DictNext(EmitByte(Expression(Consume(Expression(m), ":", MsgColon)), Cur(m),
                           OpCode.OP_ADD_DICT))

Dict(m, canAssign) ==
    Consume(DictItems(EmitByte(m, Cur(m), OpCode.OP_NEW_DICT)), "}", MsgDictBrace)

\* The items of a list literal, up to its closing bracket.
RECURSIVE ListItems(_)
\* list after an item: the next item, if a comma follows.
ListNext(m) == IF Check(m, ",") THEN ListItems(Advance(m)) ELSE m

ListItems(m) ==
    IF Check(m, "]") THEN m
    ELSE ListNext(EmitByte(Expression(m), Cur(m), OpCode.OP_ADD_LIST))

List(m, canAssign) ==
    Consume(ListItems(EmitByte(m, Cur(m), OpCode.OP_NEW_LIST)), "]", MsgBracket)

\* subscript after the right-hand expression of an assignment: a compound operator
\* emits OP_PUSH and its instruction.
SubscriptCompound(e, k, operatorType) ==
    IF operatorType = "=" THEN e
    ELSE CompoundEmit(EmitByte(e, k, OpCode.OP_PUSH), k, operatorType)

\* subscript after the closing bracket: the assignment, or the read.
SubscriptAccess(c, k, canAssign) ==
    IF canAssign /\ CurTok(c) \in AssignOps
    THEN EmitByte(SubscriptCompound(Expression(Advance(c)), k, CurTok(c)), k,
                  OpCode.OP_SUBSCRIPT_ASSIGN)
    ELSE EmitByte(c, k, OpCode.OP_SUBSCRIPT)

\* subscript after `index :`, the end of the slice.
SliceEnd(a, k) ==
    Consume(EmitByte(IF Check(a, "]") THEN EmitByte(a, k, OpCode.OP_EMPTY)
                     ELSE Expression(a),
                     k, OpCode.OP_SLICE),
            "]", MsgBracket)

\* subscript after the index expression.
SubscriptIndexed(e, k, canAssign) ==
    IF Check(e, ":") THEN SliceEnd(Advance(e), k)
    ELSE SubscriptAccess(Consume(e, "]", MsgBracket), k, canAssign)

Subscript(m, canAssign) ==
    IF Check(m, ":")
    THEN Consume(EmitByte(Expression(EmitByte(Advance(m), Cur(m), OpCode.OP_EMPTY)),
                          Cur(m), OpCode.OP_SLICE),
                 "]", MsgBracket)
    ELSE SubscriptIndexed(Expression(m), Cur(m), canAssign)

\* The rule of a string token; the byte past the content is read only when an escape is
\* replaced, and the tokens of the model hold none.
String(m, canAssign) == StringToken(m, Content(m.prev), 0)

ParseFn(fn, m, canAssign) ==
    CASE fn = "variable" -> Variable(m, canAssign)
      [] fn = "dict" -> Dict(m, canAssign)
      [] fn = "string" -> String(m, canAssign)
      [] fn = "list" -> List(m, canAssign)
      [] fn = "subscript" -> Subscript(m, canAssign)
      [] fn = "dot" -> Dot(m, canAssign)
      [] fn = "and_" -> And_(m, canAssign)
      [] fn = "or_" -> Or_(m, canAssign)
      [] fn = "binary" -> Binary(m, canAssign)
      [] fn = "unary" -> Unary(m, canAssign)
      [] fn = "prefix" -> Prefix(m, canAssign)

\* The loop of parsePrecedence over the infix operators that bind at least as tightly.
RECURSIVE InfixLoop(_, _, _)
InfixLoop(m, precedence, canAssign) ==
    IF precedence <= GetRule(TokenType(CurTok(m))).precedence
    THEN LET a == Advance(m)
         IN  InfixLoop(ParseFn(GetRule(TokenType(a.prev)).infix, a, canAssign),
                       precedence, canAssign)
    ELSE m

\* The end of parsePrecedence: an `=` no rule consumed.
AssignmentTarget(m, canAssign) ==
    IF canAssign /\ Check(m, "=") THEN Error(Advance(m), MsgTarget) ELSE m

ParsePrecedence(m, precedence) ==
    LET a == Advance(m)
        prefixRule == GetRule(TokenType(a.prev)).prefix
        canAssign == precedence <= Precedence.PREC_ASSIGNMENT
    IN  IF prefixRule = "NULL" THEN Error(a, MsgExpression)
        ELSE AssignmentTarget(InfixLoop(ParseFn(prefixRule, a, canAssign), precedence,
                                        canAssign),
                              canAssign)

(***************************************************************************)
(* The compiler state machine.                                             *)
(***************************************************************************)
NewCompiler(type, name) ==
    [type |-> type,
     name |-> name,
     locals |-> <<[name |-> IF type \notin {"FUNCTION", "STATIC"} THEN "this" ELSE "",
                   depth |-> 0, isUpvalue |-> FALSE]>>,
     scopeDepth |-> 0,
     upvalues |-> <<>>,
     code |-> <<>>,
     constants |-> <<>>,
     stringConstants |-> <<>>,
     arity |-> 0,
     arityOptional |-> 0,
     enclosing |-> 0,
     function |-> TRUE]

NoRes == [kind |-> "none", arg |-> -1, panic |-> FALSE]

Op(op, k, name, res) == [op |-> op, k |-> k, name |-> name, res |-> res]

Frame(kind, arg) == [kind |-> kind, n |-> 0, arg |-> arg]

NoOut == [done |-> FALSE]

(***************************************************************************)
(* Statements given as tokens.                                             *)
(***************************************************************************)
ExpressionStatement(m) ==
    EmitByte(Consume(Expression(m), ";", MsgSemicolon), Cur(m), OpCode.OP_POP)

\* The tokens at which synchronize stops.
SyncTokens ==
    {"class", "trait", "def", "static", "var", "for", "if", "while", "break", "return",
     "import", "with"}

RECURSIVE SynchronizeLoop(_)
SynchronizeLoop(m) ==
    IF Check(m, "EOF") \/ m.prev = ";" \/ TokenType(CurTok(m)) \in SyncTokens THEN m
    ELSE SynchronizeLoop(Advance(m))

Synchronize(m) == SynchronizeLoop([m EXCEPT !.p.panicMode = FALSE])

\* declaration() after its statement: synchronize when the parser panics.
Recover(m) == IF m.p.panicMode THEN Synchronize(m) ELSE m

\* declaration(), for tokens that begin no statement but an expression statement.
Declaration(m) == Recover(ExpressionStatement(m))

RECURSIVE Block(_)
Block(m) ==
    IF ~Check(m, "}") /\ ~Check(m, "EOF") THEN Block(Declaration(m))
    ELSE Consume(m, "}", MsgBlock)

(***************************************************************************)
(* function(): the compiler of the function, its parameters and its body.  *)
(***************************************************************************)
\* initCompiler for a function nested in the current one, named by parser->previous.
InitCompilerIn(m, type) ==
    [m EXCEPT !.cs = Append(@, [NewCompiler(type, m.prev) EXCEPT !.enclosing = Cur(m)])]

\* parseVariable: the identifier is consumed, and parser->previous is the name.
ParseVariableToken(c) == ParseVariable(c, Cur(c), c.prev)

\* ParameterCounted without the test of `optional`.
ParameterCountedUnordered(d, k, optional) ==
    IF Check(d, "=")
    THEN Ret(Expression(Advance([d EXCEPT !.cs[k].arityOptional = @ + 1])), TRUE)
    ELSE Ret([d EXCEPT !.cs[k].arity = @ + 1], optional)

\* One parameter after its name is defined: a default makes it optional; returns whether
\* an optional parameter has been met.
ParameterCounted(d, k, optional) ==
    IF Check(d, "=")
    THEN Ret(Expression(Advance([d EXCEPT !.cs[k].arityOptional = @ + 1])), TRUE)
    ELSE Ret(IF optional THEN Error([d EXCEPT !.cs[k].arity = @ + 1], MsgNonOptional)
             ELSE [d EXCEPT !.cs[k].arity = @ + 1],
             optional)

ParameterChecked(m, k) ==
    IF m.cs[k].arity + m.cs[k].arityOptional > 255 THEN Error(m, MsgParameters) ELSE m

\* One turn of the parameter loop, up to the test of the comma.
Parameter(m, optional) ==
    LET v == ParseVariableToken(Consume(m, "IDENTIFIER", MsgParameter))
    IN  ParameterChecked(ParameterCounted(DefineVariable(v, Cur(m), v.r), Cur(m), optional),
                         Cur(m))

RECURSIVE Parameters(_, _)
ParameterNext(m) == IF Check(m, ",") THEN Parameters(Advance(m), m.r) ELSE m

Parameters(m, optional) == ParameterNext(Parameter(m, optional))

DefineOptional(m, k) ==
    IF m.cs[k].arityOptional > 0 THEN EmitByte(m, k, OpCode.OP_DEFINE_OPTIONAL) ELSE m

ParameterList(c) ==
    IF Check(c, ")") THEN c ELSE DefineOptional(Parameters(c, FALSE), Cur(c))

\* function() up to the parameter list.
FunctionBegin(m, type) ==
    Consume(BeginScope(InitCompilerIn(m, type), Cur(m) + 1), "(", MsgParen)

\* function() from the end of the parameter list to the body.
ParametersEnd(m) == Consume(Consume(m, ")", MsgParenEnd), "{", MsgBody)

\* function() up to the body.
FunctionHeader(m, type) == ParametersEnd(ParameterList(FunctionBegin(m, type)))

\* The compiler as compile() starts it.
InitCompiler ==
    /\ comps = <<NewCompiler("TOP_LEVEL", "")>>
    /\ parser = [hadError |-> FALSE, panicMode |-> FALSE, msgs |-> <<>>]
    /\ loops = <<>>
    /\ classes = <<>>
    /\ ctx = <<Frame("top", 0)>>
    /\ breaks = {}
    /\ last = Op("init", 1, "", NoRes)
    /\ steps = 0
    /\ vm = [compiler |-> 1]

Init ==
    /\ InitCompiler
    /\ src = <<>>
    /\ out = NoOut

M == Machine(comps, [parser EXCEPT !.msgs = <<>>])

Top == ctx[Len(ctx)]

DeclKinds == {"top", "block", "fun", "method"}

CanDeclare == Top.kind \in DeclKinds

CanStatement == CanDeclare \/ (Top.kind \in {"while", "with"} /\ Top.n = 0)

Fits(m) == \A k \in 1..Len(m.cs) :
    /\ Len(m.cs[k].code) <= MaxCode
    /\ Len(m.cs[k].locals) <= MaxLocals

\* A statement ends inside frame stack c: its parent counts it, and declaration()
\* synchronizes when the parent is a list of declarations.
Done(c) == [c EXCEPT ![Len(c)].n = 1]

Synced(c, p) ==
    IF c[Len(c)].kind \in DeclKinds THEN [p EXCEPT !.panicMode = FALSE] ELSE p

Commit(m, c, op) ==
    /\ steps < MaxSteps
    /\ Fits(m)
    /\ comps' = m.cs
    /\ parser' = m.p
    /\ ctx' = c
    /\ last' = op
    /\ steps' = steps + 1
    /\ vm' = [vm EXCEPT !.compiler = Len(m.cs)]
    /\ UNCHANGED <<src, out>>

CommitStatement(m, c, op) ==
    /\ steps < MaxSteps
    /\ Fits(m)
    /\ comps' = m.cs
    /\ parser' = Synced(c, m.p)
    /\ ctx' = Done(c)
    /\ last' = op
    /\ steps' = steps + 1
    /\ vm' = [vm EXCEPT !.compiler = Len(m.cs)]
    /\ UNCHANGED <<src, out>>

Pop(c) == SubSeq(c, 1, Len(c) - 1)

BeginBlock ==
    /\ CanStatement
    /\ comps[Len(comps)].scopeDepth < MaxDepth
    /\ Commit(BeginScope(M, Cur(M)), Append(ctx, Frame("block", 0)),
              Op("beginScope", Cur(M), "", NoRes))
    /\ UNCHANGED <<loops, classes, breaks>>

EndBlock ==
    /\ Top.kind = "block"
    /\ CommitStatement(EndScope(M, Cur(M)), Pop(ctx), Op("endScope", Cur(M), "", NoRes))
    /\ UNCHANGED <<loops, classes, breaks>>

VarDeclare(name) ==
    /\ CanDeclare
    /\ LET m == ParseVariable(M, Cur(M), name)
       IN  Commit(m, Append(ctx, Frame("var", m.r)), Op("declare", Cur(M), name, NoRes))
    /\ UNCHANGED <<loops, classes, breaks>>

\* One operand of the initializer; operands after the first are added to it.
Operand(m, c, op, name) ==
    Commit(IF Top.n > 0 THEN EmitByte(m, Cur(m), OpCode.OP_ADD) ELSE m,
           [c EXCEPT ![Len(c)].n = @ + 1], Op(op, Cur(m), name, m.r))

NameRef(name) ==
    /\ Top.kind = "var"
    /\ Top.n < MaxAtoms
    /\ Operand(NamedVariable(M, name, Top.n = 0), ctx, "name", name)
    /\ UNCHANGED <<loops, classes, breaks>>

VarDefine ==
    /\ Top.kind = "var"
    /\ LET m0 == IF Top.n = 0 THEN EmitByte(M, Cur(M), OpCode.OP_NIL) ELSE M
           m == DefineVariable(m0, Cur(M), Top.arg)
       IN  CommitStatement(m, Pop(ctx), Op("define", Cur(M), "", NoRes))
    /\ UNCHANGED <<loops, classes, breaks>>

\* expressionStatement on a name, once the name is compiled.
NamedStatement(m, name) ==
    CommitStatement(EmitByte(m, Cur(m), OpCode.OP_POP), ctx, Op("name", Cur(m), name, m.r))

ExprStmt(name) ==
    /\ CanStatement
    /\ NamedStatement(NamedVariable(M, name, TRUE), name)
    /\ UNCHANGED <<loops, classes, breaks>>

(***************************************************************************)
(* Jumps and loops.                                                        *)
(***************************************************************************)
EmitReturn(m, k) ==
    EmitByte(IF m.cs[k].type = "INITIALIZER" THEN EmitBytes(m, k, OpCode.OP_GET_LOCAL, 0)
             ELSE EmitByte(m, k, OpCode.OP_NIL),
             k, OpCode.OP_RETURN)

\* The scan of endLoop from byte i to the end of the chunk.
RECURSIVE PatchBreaks(_, _, _)
PatchBreaks(m, k, i) ==
    IF i >= Count(m, k) THEN m
    ELSE IF m.cs[k].code[i + 1] = OpCode.OP_BREAK
    THEN PatchBreaks(PatchJump([m EXCEPT !.cs[k].code[i + 1] = OpCode.OP_JUMP], k, i + 1), k, i + 3)
    ELSE PatchBreaks(m, k, i + 1)

EndLoop(m, k, loop) ==
    LET m1 == IF loop.end # -1 THEN EmitByte(PatchJump(m, k, loop.end), k, OpCode.OP_POP) ELSE m
    IN  PatchBreaks(m1, k, loop.body)

\* DiscardLocals that stops below the loop's scope depth, not at it.
RECURSIVE DiscardLocalsAtDepth(_, _, _, _)
DiscardLocalsAtDepth(m, k, scopeDepth, i) ==
    IF i >= 0 /\ m.cs[k].locals[i + 1].depth >= scopeDepth
    THEN DiscardLocalsAtDepth(EmitByte(m, k, OpCode.OP_POP), k, scopeDepth, i - 1)
    ELSE m

\* The pops break and continue emit for the locals above the loop's scope depth.
RECURSIVE DiscardLocals(_, _, _, _)
DiscardLocals(m, k, scopeDepth, i) ==
    IF i >= 0 /\ m.cs[k].locals[i + 1].depth > scopeDepth
    THEN DiscardLocals(EmitByte(m, k, OpCode.OP_POP), k, scopeDepth, i - 1)
    ELSE m

\* The upvalue operands endCompiler writes after OP_CLOSURE.
RECURSIVE EmitUpvalues(_, _, _, _)
EmitUpvalues(m, k, upvalues, i) ==
    IF i >= Len(upvalues) THEN m
    ELSE EmitUpvalues(EmitByte(EmitByte(m, k, IF upvalues[i + 1].isLocal THEN 1 ELSE 0),
                               k, upvalues[i + 1].index),
                      k, upvalues, i + 1)

\* endCompiler up to freeTable: the return, and the closure in the enclosing function.
EndCompilerEmit(m) ==
    LET k == Cur(m)
        m1 == EmitReturn(m, k)
        function == FunctionVal(m1.cs[k].name, m1.cs[k].code)
    IN  IF k > 1
        THEN LET c == MakeConstant(m1, k - 1, function)
             IN  EmitUpvalues(EmitBytes(c, k - 1, OpCode.OP_CLOSURE, c.r), k - 1,
                              m1.cs[k].upvalues, 0)
        ELSE m1

EndCompiler(m) == [EndCompilerEmit(m) EXCEPT !.cs = SubSeq(@, 1, Cur(m) - 1)]

InLoop == loops # <<>>

TopLoop == loops[Len(loops)]

TopClass == classes[Len(classes)]

\* whileStatement up to the body, for `while {`; returns the loop.
WhileBegin(m, k) ==
    LET j == EmitJump(EmitByte(m, k, OpCode.OP_TRUE), k, OpCode.OP_JUMP_IF_FALSE)
        b == EmitByte(j, k, OpCode.OP_POP)
    IN  Ret(b, [start |-> Count(m, k), body |-> Count(b, k), end |-> j.r,
                scopeDepth |-> m.cs[k].scopeDepth, k |-> k])

BeginWhile ==
    /\ CanStatement
    /\ LET k == Cur(M)
           m == WhileBegin(M, k)
       IN  /\ Commit(m, Append(ctx, Frame("while", m.r.start)), Op("while", k, "", NoRes))
           /\ loops' = Append(loops, m.r)
    /\ UNCHANGED <<classes, breaks>>

EndWhile ==
    /\ Top.kind = "while"
    /\ Top.n = 1
    /\ LET k == Cur(M)
           m == EndLoop(EmitLoop(M, k, Top.arg), k, TopLoop)
       IN  CommitStatement(m, Pop(ctx), Op("endLoop", k, "", NoRes))
    /\ loops' = Pop(loops)
    /\ breaks' = {b \in breaks : b.loop # Len(loops)}
    /\ UNCHANGED classes

BreakStmt ==
    /\ CanStatement
    /\ LET k == Cur(M)
       IN  IF ~InLoop
           THEN /\ CommitStatement(Error(M, MsgBreak), ctx, Op("break", k, "", NoRes))
                /\ UNCHANGED breaks
           ELSE LET m == EmitJump(DiscardLocals(M, k, TopLoop.scopeDepth,
                                                Len(comps[k].locals) - 1),
                                  k, OpCode.OP_BREAK)
                IN  /\ CommitStatement(m, ctx, Op("break", k, "", NoRes))
                    /\ breaks' = breaks \cup {[loop |-> Len(loops), k |-> k, pos |-> m.r - 1]}
    /\ UNCHANGED <<loops, classes>>

\* continueStatement in a loop: the pops of the locals of the loop, and the jump back.
ContinueInLoop(m, k, loop) ==
    EmitLoop(DiscardLocals(m, k, loop.scopeDepth, Len(m.cs[k].locals) - 1), k, loop.start)

\* Outside a loop the error is reported and compiler->loop, a null pointer, is read.
ContinueStmt ==
    /\ CanStatement
    /\ LET k == Cur(M)
       IN  IF ~InLoop
           THEN Commit(Error(M, MsgContinue), <<Frame("crashed", 0)>>,
                       Op("continue", k, "", NoRes))
           ELSE CommitStatement(ContinueInLoop(M, k, TopLoop), ctx,
                                Op("continue", k, "", NoRes))
    /\ UNCHANGED <<loops, classes, breaks>>

ReturnStmt ==
    /\ CanStatement
    /\ LET k == Cur(M)
           m == IF comps[k].type = "TOP_LEVEL" THEN Error(M, MsgReturnTop) ELSE M
       IN  CommitStatement(EmitReturn(m, k), ctx, Op("return", k, "", NoRes))
    /\ UNCHANGED <<loops, classes, breaks>>

\* withStatement up to the body, for `with ("path", "mode")`: the local `file` is written
\* at locals[localCount] and counted, without addLocal.
WithBegin(m, k) ==
    LET path == MakeConstant(m, k, StringVal("path"))
        mode == MakeConstant(EmitBytes(path, k, OpCode.OP_CONSTANT, path.r), k,
                             StringVal("mode"))
        s == BeginScope(EmitBytes(mode, k, OpCode.OP_CONSTANT, mode.r), k)
    IN  EmitByte([s EXCEPT !.cs[k].locals =
                      Append(@, [name |-> "file", depth |-> s.cs[k].scopeDepth,
                                 isUpvalue |-> FALSE])],
                 k, OpCode.OP_OPEN_FILE)

BeginWith ==
    /\ CanStatement
    /\ comps[Len(comps)].scopeDepth < MaxDepth
    /\ Commit(WithBegin(M, Cur(M)), Append(ctx, Frame("with", 0)),
              Op("with", Cur(M), "", NoRes))
    /\ UNCHANGED <<loops, classes, breaks>>

EndWith ==
    /\ Top.kind = "with"
    /\ Top.n = 1
    /\ LET k == Cur(M)
       IN  CommitStatement(EndScope(EmitByte(M, k, OpCode.OP_CLOSE_FILE), k), Pop(ctx),
                           Op("endWith", k, "", NoRes))
    /\ UNCHANGED <<loops, classes, breaks>>

BeginFun(name) ==
    /\ CanDeclare
    /\ Len(comps) < MaxFns
    /\ LET k == Cur(M)
           v == ParseVariable(M, k, name)
           m == [v EXCEPT !.cs = Append(@, [NewCompiler("FUNCTION", name)
                                               EXCEPT !.scopeDepth = 1, !.enclosing = k])]
       IN  Commit(m, Append(ctx, Frame("fun", v.r)), Op("function", k + 1, name, NoRes))
    /\ UNCHANGED <<loops, classes, breaks>>

EndFun ==
    /\ Top.kind = "fun"
    /\ LET k == Cur(M)
           m == DefineVariable(EndCompiler(M), k - 1, Top.arg)
       IN  CommitStatement(m, Pop(ctx), Op("endCompiler", k, "", NoRes))
    /\ breaks' = {IF b.k = Len(comps) THEN [b EXCEPT !.k = 0] ELSE b : b \in breaks}
    /\ UNCHANGED <<loops, classes>>

\* classDeclaration after the superclass is read: the local `super` and OP_SUBCLASS.
Subclass(v, k, nameConstant) ==
    Ret(EmitBytes(AddLocal(v, k, "super"), k, OpCode.OP_SUBCLASS, nameConstant), v.r)

ClassBegun(m, name, nameConstant) ==
    Commit(m, Append(ctx, Frame("class", nameConstant)), Op("class", Cur(m), name, m.r))

BeginClass(name, super) ==
    /\ CanDeclare
    /\ comps[Len(comps)].scopeDepth < MaxDepth
    /\ LET k == Cur(M)
           c == IdentifierConstant(M, k, name)
           d == DeclareVariable(c, k, name)
       IN  ClassBegun(IF super = "" THEN Ret(EmitBytes(d, k, OpCode.OP_CLASS, c.r), NoRes)
                      ELSE Subclass(NamedVariable(BeginScope(d, k), super, FALSE), k, c.r),
                      name, c.r)
    /\ classes' = Append(classes, [name |-> name, hasSuperclass |-> super # "",
                                   staticMethod |-> FALSE])
    /\ UNCHANGED <<loops, breaks>>

EndClass ==
    /\ Top.kind = "class"
    /\ LET k == Cur(M)
           e == IF TopClass.hasSuperclass THEN EndScope(M, k) ELSE M
       IN  CommitStatement(DefineVariable(e, k, Top.arg), Pop(ctx),
                           Op("endClass", k, "", NoRes))
    /\ classes' = Pop(classes)
    /\ UNCHANGED <<loops, breaks>>

\* this_ as an operand of an initializer.
ThisRef ==
    /\ Top.kind = "var"
    /\ Top.n < MaxAtoms
    /\ IF classes = <<>> THEN Operand(Ret(Error(M, MsgThis), NoRes), ctx, "this", "this")
       ELSE IF TopClass.staticMethod
       THEN Operand(Ret(Error(M, MsgThisStatic), NoRes), ctx, "this", "this")
       ELSE Operand(NamedVariable(M, "this", FALSE), ctx, "this", "this")
    /\ UNCHANGED <<loops, classes, breaks>>

Next ==
    \/ BeginBlock
    \/ EndBlock
    \/ \E name \in Names : VarDeclare(name)
    \/ \E name \in Names : NameRef(name)
    \/ ThisRef
    \/ VarDefine
    \/ \E name \in Names : ExprStmt(name)
    \/ BeginWhile
    \/ EndWhile
    \/ BreakStmt
    \/ ContinueStmt
    \/ ReturnStmt
    \/ BeginWith
    \/ EndWith
    \/ \E name \in Names : BeginFun(name)
    \/ EndFun
    \/ \E name \in Names, super \in SuperNames : BeginClass(name, super)
    \/ EndClass

Spec == Init /\ [][Next]_vars

(***************************************************************************)
(* compile() to its return: declarations at the top level and in blocks    *)
(* and functions, then the end of the token stream.                        *)
(***************************************************************************)
\* The null pointer compile() returns instead of a function.
NULL == [kind |-> "null", name |-> "", code |-> <<>>]

\* compile() from TOKEN_EOF on: endCompiler, and the function or NULL.
CompileEnd ==
    /\ Len(ctx) = 1
    /\ Top.kind = "top"
    /\ ~out.done
    /\ steps < MaxSteps
    /\ LET function == FunctionVal("", EmitReturn(M, 1).cs[1].code)
       IN  /\ comps' = EndCompiler(M).cs
           /\ parser' = EndCompiler(M).p
           /\ out' = [done |-> TRUE,
                      function |-> IF EndCompiler(M).p.hadError THEN NULL ELSE function]
    /\ ctx' = <<Frame("returned", 0)>>
    /\ last' = Op("compile", 1, "", NoRes)
    /\ steps' = steps + 1
    /\ vm' = [vm EXCEPT !.compiler = Len(comps')]
    /\ UNCHANGED <<loops, classes, breaks, src>>

NextCompile ==
    \/ BeginBlock
    \/ EndBlock
    \/ \E name \in Names : VarDeclare(name)
    \/ \E name \in Names : NameRef(name)
    \/ VarDefine
    \/ \E name \in Names : ExprStmt(name)
    \/ BreakStmt
    \/ ContinueStmt
    \/ ReturnStmt
    \/ \E name \in Names : BeginFun(name)
    \/ EndFun
    \/ CompileEnd

SpecCompile == Init /\ [][NextCompile]_vars

(***************************************************************************)
(* Classes with their methods: method(), and `this` and `super` as the     *)
(* operands of an initializer in a method body.                            *)
(***************************************************************************)
MethodNames == {"a", "init"}

\* method(): the function type, from the `static` keyword and the name.
MethodType(name, static) ==
    IF name = "init" THEN "INITIALIZER" ELSE IF static THEN "STATIC" ELSE "METHOD"

\* method() up to the body of the function: the name constant, initCompiler, beginScope.
BeginMethod(name, static) ==
    /\ Top.kind = "class"
    /\ Len(comps) < MaxFns
    /\ LET k == Cur(M)
           c == IdentifierConstant(M, k, name)
           m == [c EXCEPT !.cs = Append(@, [NewCompiler(MethodType(name, static), name)
                                               EXCEPT !.scopeDepth = 1, !.enclosing = k])]
       IN  Commit(m, Append(ctx, Frame("method", c.r)), Op("method", k + 1, name, NoRes))
    /\ classes' = [classes EXCEPT ![Len(classes)].staticMethod = static]
    /\ UNCHANGED <<loops, breaks>>

\* method() from the end of the body: endCompiler and OP_METHOD.
EndMethod ==
    /\ Top.kind = "method"
    /\ LET k == Cur(M)
       IN  Commit(EmitBytes(EndCompiler(M), k - 1, OpCode.OP_METHOD, Top.arg), Pop(ctx),
                  Op("endMethod", k, "", NoRes))
    /\ UNCHANGED <<loops, classes, breaks>>

\* super_: the checks of the class.
SuperChecked(m) ==
    IF classes = <<>> THEN Error(m, MsgSuper)
    ELSE IF ~TopClass.hasSuperclass THEN Error(m, MsgSuperNone)
    ELSE m

\* pushSuperclass.
PushSuperclass(m) == IF classes = <<>> THEN m ELSE NamedVariable(m, "super", FALSE)

\* super_ once the receiver is pushed; returns how `this` was resolved.
SuperEmit(this, k, name, call) ==
    Ret(IF call THEN EmitByte(EmitBytes(PushSuperclass(this), k, OpCode.OP_SUPER, 0), k, name)
        ELSE EmitBytes(PushSuperclass(this), k, OpCode.OP_GET_SUPER, name),
        this.r)

SuperNamed(c, k, call) == SuperEmit(NamedVariable(c, "this", FALSE), k, c.r, call)

\* super_ as an operand of an initializer: `super.name` or `super.name()`.
SuperRef(name, call) ==
    /\ Top.kind = "var"
    /\ Top.n < MaxAtoms
    /\ Operand(SuperNamed(IdentifierConstant(SuperChecked(M), Cur(M), name), Cur(M), call),
               ctx, "super", name)
    /\ UNCHANGED <<loops, classes, breaks>>

NextClass ==
    \/ \E super \in SuperNames : BeginClass("a", super)
    \/ EndClass
    \/ \E name \in MethodNames, static \in BOOLEAN : BeginMethod(name, static)
    \/ EndMethod
    \/ BeginFun("b")
    \/ EndFun
    \/ VarDeclare("b")
    \/ \E name \in Names : NameRef(name)
    \/ ThisRef
    \/ \E call \in BOOLEAN : SuperRef("a", call)
    \/ VarDefine

SpecClass == Init /\ [][NextClass]_vars

(***************************************************************************)
(* The native toString of numbers.  Here vm also holds the interned        *)
(* strings and the runtime errors signalled; a number is an integer of     *)
(* fewer than 15 digits, which "%.15g" prints in full.                     *)
(***************************************************************************)
MaxArgs == 2
MaxNumber == 10
MaxErrors == 2

EMPTY_VAL == [kind |-> "empty", name |-> "", code |-> <<>>]

NumberInputs == {-MaxNumber, -1, 0, 1, MaxNumber}

Digit(d) == SubSeq("0123456789", d + 1, d + 1)

RECURSIVE Digits(_)
Digits(n) == IF n < 10 THEN Digit(n) ELSE Digits(n \div 10) \o Digit(n % 10)

\* snprintf with "%.15g".
Format15g(number) == IF number < 0 THEN "-" \o Digits(-number) ELSE Digits(number)

\* runtimeError: the error is signalled on the VM.
RuntimeError(v, msg) == [v EXCEPT !.errors = Append(@, msg)]

\* copyString: the string is interned, allocated if the VM does not have it yet.
CopyString(v, chars) == [v EXCEPT !.strings = @ \cup {chars}]

\* toStringNumber without the test of argCount.
ToStringNumberUnchecked(v, argCount, args) ==
    [vm |-> CopyString(v, Format15g(args[1])), value |-> StringVal(Format15g(args[1]))]

\* toStringNumber: the VM afterwards and the Value returned; args[1] is the receiver.
ToStringNumber(v, argCount, args) ==
    IF argCount # 0
    THEN [vm |-> RuntimeError(v, "toString() takes no arguments (" \o Digits(argCount)
                                     \o " given)"),
          value |-> EMPTY_VAL]
    ELSE [vm |-> CopyString(v, Format15g(args[1])), value |-> StringVal(Format15g(args[1]))]

\* The VM with no compilation under way.
InitNumber ==
    /\ comps = <<>>
    /\ parser = [hadError |-> FALSE, panicMode |-> FALSE, msgs |-> <<>>]
    /\ loops = <<>>
    /\ classes = <<>>
    /\ ctx = <<>>
    /\ breaks = {}
    /\ last = Op("init", 0, "", NoRes)
    /\ steps = 0
    /\ vm = [compiler |-> 0, strings |-> {}, errors |-> <<>>]
    /\ src = <<>>
    /\ out = NoOut

\* A call of number.toString with argCount arguments.
CallToString(number, argCount) ==
    /\ Len(vm.errors) < MaxErrors
    /\ LET call == ToStringNumber(vm, argCount, <<number>> \o [i \in 1..argCount |-> 0])
       IN  /\ vm' = call.vm
           /\ out' = [done |-> TRUE, value |-> call.value]
    /\ last' = Op("toString", argCount, "", NoRes)
    /\ UNCHANGED <<comps, parser, loops, classes, ctx, breaks, steps, src>>

NextNumber == \E number \in NumberInputs, argCount \in 0..MaxArgs : CallToString(number, argCount)

SpecNumber == InitNumber /\ [][NextNumber]_vars

(***************************************************************************)
(* A list and its natives push, pop and toBool.  vm.list is the list: a    *)
(* growable array, of which the first count values are its elements; src   *)
(* is the sequence of the elements pushed and not popped since.            *)
(***************************************************************************)
MaxList == 4

ListValues == {10, 11}

BOOL_VAL(b) == [kind |-> "bool", name |-> b, code |-> <<>>]

\* push: the value is written after the last element, over whatever the array holds there.
PushList(list, value) ==
    [count |-> list.count + 1,
     values |-> IF list.count < Len(list.values)
                THEN [list.values EXCEPT ![list.count + 1] = value]
                ELSE Append(list.values, value)]

\* pop: the last element is taken off; the array keeps its storage.
PopList(list) == [list EXCEPT !.count = @ - 1]

\* toBool that looks at the storage of the array, not at the count.
ToBoolListStorage(list) == BOOL_VAL(Len(list.values) # 0)

\* toBool: whether the list has an element.
ToBoolList(list) == BOOL_VAL(list.count # 0)

InitList ==
    /\ comps = <<>>
    /\ parser = [hadError |-> FALSE, panicMode |-> FALSE, msgs |-> <<>>]
    /\ loops = <<>>
    /\ classes = <<>>
    /\ ctx = <<>>
    /\ breaks = {}
    /\ last = Op("init", 0, "", NoRes)
    /\ steps = 0
    /\ vm = [compiler |-> 0, errors |-> <<>>, list |-> [count |-> 0, values |-> <<>>]]
    /\ src = <<>>
    /\ out = NoOut

ListStep(v, history, value, op) ==
    /\ vm.errors = <<>>
    /\ steps < 2 * MaxList
    /\ vm' = v
    /\ src' = history
    /\ out' = [done |-> TRUE, value |-> value]
    /\ last' = Op(op, 0, "", NoRes)
    /\ steps' = steps + 1
    /\ UNCHANGED <<comps, parser, loops, classes, ctx, breaks>>

ListPush(value) ==
    /\ vm.list.count < MaxList
    /\ ListStep([vm EXCEPT !.list = PushList(@, value)], Append(src, value), value, "push")

\* pop of an empty list is a runtime error, which ends the script.
ListPop ==
    IF vm.list.count = 0
    THEN ListStep([vm EXCEPT !.errors = Append(@, "pop() called on an empty list.")],
                  src, EMPTY_VAL, "pop")
    ELSE ListStep([vm EXCEPT !.list = PopList(@)], SubSeq(src, 1, Len(src) - 1),
                  vm.list.values[vm.list.count], "pop")

ListToBool == ListStep(vm, src, ToBoolList(vm.list), "toBool")

NextList ==
    \/ \E value \in ListValues : ListPush(value)
    \/ ListPop
    \/ ListToBool

SpecList == InitList /\ [][NextList]_vars

(***************************************************************************)
(* A dict: an open-addressed table keyed by Value, with linear probing, a  *)
(* load factor of 3/4 and tombstones.  vm.dict is the dict; src is the     *)
(* sequence of the keys set and not removed since.                         *)
(***************************************************************************)
MaxDictOps == 5

MinCapacity == 4

NIL_VAL == [kind |-> "nil", name |-> "", code |-> <<>>]

\* Keys of every type; their hashes collide in pairs.
DictKeys == <<NIL_VAL, BOOL_VAL(TRUE), BOOL_VAL(FALSE), NumberVal(1), NumberVal(10),
              StringVal("key")>>

DictValues == <<NIL_VAL, NumberVal(1)>>

\* ValuesEqual that compares the truth of the two values.
ValuesEqualTruthy(a, b) ==
    LET Truthy(v) == CASE v.kind = "nil" -> FALSE
                       [] v.kind = "bool" -> v.name
                       [] v.kind = "number" -> v.name # 0
                       [] OTHER -> TRUE
    IN  (a.kind = b.kind /\ a.name = b.name) \/ (a.kind # b.kind /\ Truthy(a) = Truthy(b)
                                                   /\ "string" \notin {a.kind, b.kind})

\* Value equality: by tag, then numbers by number, booleans by truth, strings by identity.
ValuesEqual(a, b) == a.kind = b.kind /\ a.name = b.name

HashValue(v) ==
    CASE v.kind = "nil" -> 0
      [] v.kind = "bool" -> IF v.name THEN 1 ELSE 0
      [] v.kind = "number" -> v.name
      [] OTHER -> Len(v.name)

EmptyEntry == [state |-> "empty", key |-> NIL_VAL, value |-> NIL_VAL]

\* The probe: the index (from 0) of the entry of the key, else of the first tombstone
\* met, else of the empty entry that ends the chain.
RECURSIVE FindEntry(_, _, _, _)
FindEntry(entries, key, index, tombstone) ==
    LET entry == entries[index + 1]
        next == (index + 1) % Len(entries)
    IN  CASE entry.state = "empty" -> IF tombstone # -1 THEN tombstone ELSE index
          [] entry.state = "tombstone" ->
                 FindEntry(entries, key, next, IF tombstone = -1 THEN index ELSE tombstone)
          [] OTHER -> IF ValuesEqual(entry.key, key) THEN index
                      ELSE FindEntry(entries, key, next, tombstone)

Find(entries, key) == FindEntry(entries, key, HashValue(key) % Len(entries), -1)

\* The entries are hashed again into a table of the new capacity; tombstones are dropped.
RECURSIVE Rehash(_, _, _)
Rehash(old, new, i) ==
    IF i > Len(old) THEN new
    ELSE IF old[i].state # "full" THEN Rehash(old, new, i + 1)
    ELSE Rehash(old, [new EXCEPT ![Find(new, old[i].key) + 1] = old[i]], i + 1)

Live(entries) == Cardinality({i \in 1..Len(entries) : entries[i].state = "full"})

AdjustCapacity(dict, capacity) ==
    [count |-> Live(dict.entries),
     entries |-> Rehash(dict.entries, [i \in 1..capacity |-> EmptyEntry], 1)]

GrowCapacity(capacity) ==
    IF capacity < MinCapacity THEN MinCapacity ELSE capacity * 2

Grown(dict) ==
    IF 4 * (dict.count + 1) > 3 * Len(dict.entries)
    THEN AdjustCapacity(dict, GrowCapacity(Len(dict.entries)))
    ELSE dict

\* The entry is written; count grows when an empty entry is taken, not a tombstone.
DictWrite(dict, index, key, value) ==
    [count |-> dict.count + (IF dict.entries[index + 1].state = "empty" THEN 1 ELSE 0),
     entries |-> [dict.entries EXCEPT ![index + 1] =
                      [state |-> "full", key |-> key, value |-> value]]]

DictSetGrown(dict, key, value) == DictWrite(dict, Find(dict.entries, key), key, value)

DictSet(dict, key, value) == DictSetGrown(Grown(dict), key, value)

\* Whether the dict has an entry of the key, and its value.
DictGet(dict, key) ==
    IF dict.entries = <<>> THEN [found |-> FALSE, value |-> NIL_VAL]
    ELSE LET entry == dict.entries[Find(dict.entries, key) + 1]
         IN  [found |-> entry.state = "full", value |-> entry.value]

\* The entry of the key becomes a tombstone.
DictDelete(dict, key) ==
    IF dict.entries = <<>> \/ dict.entries[Find(dict.entries, key) + 1].state # "full"
    THEN dict
    ELSE [dict EXCEPT !.entries[Find(dict.entries, key) + 1].state = "tombstone"]

InitDict ==
    /\ comps = <<>>
    /\ parser = [hadError |-> FALSE, panicMode |-> FALSE, msgs |-> <<>>]
    /\ loops = <<>>
    /\ classes = <<>>
    /\ ctx = <<>>
    /\ breaks = {}
    /\ last = Op("init", 0, "", NoRes)
    /\ steps = 0
    /\ vm = [compiler |-> 0, errors |-> <<>>, dict |-> [count |-> 0, entries |-> <<>>]]
    /\ src = <<>>
    /\ out = NoOut

DictStep(v, history, value, op, key) ==
    /\ vm.errors = <<>>
    /\ steps < MaxDictOps
    /\ vm' = v
    /\ src' = history
    /\ out' = [done |-> TRUE, value |-> value]
    /\ last' = Op(op, 0, "", key)
    /\ steps' = steps + 1
    /\ UNCHANGED <<comps, parser, loops, classes, ctx, breaks>>

Without(history, key) == SelectSeq(history, LAMBDA k : ~(k.kind = key.kind /\ k.name = key.name))

\* dict[key] = value.
DictAssign(key, value) ==
    DictStep([vm EXCEPT !.dict = DictSet(@, key, value)], Append(Without(src, key), key),
             value, "set", key)

\* dict.remove(key).
DictRemove(key) ==
    DictStep([vm EXCEPT !.dict = DictDelete(@, key)], Without(src, key), NIL_VAL, "remove", key)

\* dict.exists(key).
DictExists(key) == DictStep(vm, src, BOOL_VAL(DictGet(vm.dict, key).found), "exists", key)

\* dict[key]: the value, or the runtime error of a missing key, which ends the script.
DictSubscript(key) ==
    IF DictGet(vm.dict, key).found
    THEN DictStep(vm, src, DictGet(vm.dict, key).value, "subscript", key)
    ELSE DictStep([vm EXCEPT !.errors = Append(@, "Key does not exist within dictionary.")],
                  src, EMPTY_VAL, "subscript", key)

NextDict ==
    \/ \E i \in DOMAIN DictKeys, j \in DOMAIN DictValues : DictAssign(DictKeys[i], DictValues[j])
    \/ \E i \in DOMAIN DictKeys : DictRemove(DictKeys[i])
    \/ \E i \in DOMAIN DictKeys : DictExists(DictKeys[i])
    \/ \E i \in DOMAIN DictKeys : DictSubscript(DictKeys[i])

SpecDict == InitDict /\ [][NextDict]_vars

(***************************************************************************)
(* The upvalues of the VM.  vm.stack is the value stack, vm.upvalues the   *)
(* upvalue objects in the order of their creation, vm.open the list of the *)
(* open ones from its head, each named by its place in vm.upvalues.        *)
(***************************************************************************)
MaxStack == 3

MaxUpvalues == 3

StackValues == {0, 1}

NewUpvalue(slot) == [open |-> TRUE, slot |-> slot, value |-> 0]

\* The number of upvalues of the list that are above the slot.
RECURSIVE Above(_, _, _)
Above(upvalues, open, slot) ==
    IF open = <<>> \/ upvalues[Head(open)].slot <= slot THEN 0
    ELSE 1 + Above(upvalues, Tail(open), slot)

\* captureUpvalue with the new upvalue linked at the head of the list.
CaptureUpvalueAtHead(v, slot) ==
    IF v.open # <<>> /\ v.upvalues[Head(v.open)].slot = slot THEN v
    ELSE [v EXCEPT !.upvalues = Append(@, NewUpvalue(slot)),
                   !.open = <<Len(v.upvalues) + 1>> \o @]

\* The list is walked past the upvalues above the slot; the upvalue found there for
\* the slot is used again, else a new one is linked in at that place.
CaptureUpvalue(v, slot) ==
    LET n == Above(v.upvalues, v.open, slot)
    IN  IF n < Len(v.open) /\ v.upvalues[v.open[n + 1]].slot = slot THEN v
        ELSE [v EXCEPT !.upvalues = Append(@, NewUpvalue(slot)),
                       !.open = SubSeq(@, 1, n) \o <<Len(v.upvalues) + 1>>
                                    \o SubSeq(@, n + 1, Len(@))]

\* From the head of the list, while the upvalue is at the slot or above: it takes the
\* value of its slot, is closed and unlinked.
RECURSIVE CloseUpvalues(_, _)
CloseUpvalues(v, lastSlot) ==
    IF v.open = <<>> \/ v.upvalues[Head(v.open)].slot < lastSlot THEN v
    ELSE CloseUpvalues([v EXCEPT !.upvalues[Head(v.open)] =
                                     [open |-> FALSE, slot |-> @.slot,
                                      value |-> v.stack[@.slot]],
                                 !.open = Tail(@)], lastSlot)

InitUpvalues ==
    /\ comps = <<>>
    /\ parser = [hadError |-> FALSE, panicMode |-> FALSE, msgs |-> <<>>]
    /\ loops = <<>>
    /\ classes = <<>>
    /\ ctx = <<>>
    /\ breaks = {}
    /\ last = Op("init", 0, "", NoRes)
    /\ steps = 0
    /\ vm = [compiler |-> 0, stack |-> <<>>, upvalues |-> <<>>, open |-> <<>>]
    /\ src = <<>>
    /\ out = NoOut

VmStep(v, op, k) ==
    /\ vm' = v
    /\ last' = Op(op, k, "", NoRes)
    /\ UNCHANGED <<comps, parser, loops, classes, ctx, breaks, steps, src, out>>

\* A value is pushed: a local is declared.
VmPush(value) ==
    /\ Len(vm.stack) < MaxStack
    /\ VmStep([vm EXCEPT !.stack = Append(@, value)], "push", Len(vm.stack) + 1)

\* OP_SET_LOCAL.
VmSetLocal(slot, value) ==
    /\ slot \in DOMAIN vm.stack
    /\ VmStep([vm EXCEPT !.stack[slot] = value], "setLocal", slot)

\* OP_SET_UPVALUE: through an open upvalue to its slot, else to the value it owns.
VmSetUpvalue(i, value) ==
    /\ i \in DOMAIN vm.upvalues
    /\ vm.upvalues[i].open => vm.upvalues[i].slot \in DOMAIN vm.stack
    /\ VmStep(IF vm.upvalues[i].open THEN [vm EXCEPT !.stack[vm.upvalues[i].slot] = value]
               ELSE [vm EXCEPT !.upvalues[i].value = value], "setUpvalue", i)

\* OP_CLOSURE with an upvalue of kind local.
VmCapture(slot) ==
    /\ slot \in DOMAIN vm.stack
    /\ Len(CaptureUpvalue(vm, slot).upvalues) <= MaxUpvalues
    /\ VmStep(CaptureUpvalue(vm, slot), "capture", slot)

\* OP_CLOSE_UPVALUE: the top of the stack is closed and popped.
VmCloseUpvalue ==
    /\ vm.stack # <<>>
    /\ VmStep([CloseUpvalues(vm, Len(vm.stack)) EXCEPT !.stack = SubSeq(@, 1, Len(@) - 1)],
               "close", Len(vm.stack))

\* A return from a frame whose slots begin at the slot.
VmReturn(slot) ==
    /\ slot \in DOMAIN vm.stack
    /\ VmStep([CloseUpvalues(vm, slot) EXCEPT !.stack = SubSeq(@, 1, slot - 1)], "close", slot)

NextUpvalues ==
    \/ \E value \in StackValues : VmPush(value)
    \/ \E slot \in 1..MaxStack, value \in StackValues : VmSetLocal(slot, value)
    \/ \E i \in 1..MaxUpvalues, value \in StackValues : VmSetUpvalue(i, value)
    \/ \E slot \in 1..MaxStack : VmCapture(slot)
    \/ VmCloseUpvalue
    \/ \E slot \in 1..MaxStack : VmReturn(slot)

SpecUpvalues == InitUpvalues /\ [][NextUpvalues]_vars

(***************************************************************************)
(* The compiler chain the collector walks: initCompiler and endCompiler    *)
(* step by step, with the points at which they and the statements between  *)
(* them allocate.                                                          *)
(***************************************************************************)
MaxAllocs == 2

FunctionTypes == {"FUNCTION", "METHOD", "STATIC", "INITIALIZER"}

InitRoots ==
    /\ comps = <<>>
    /\ parser = [hadError |-> FALSE, panicMode |-> FALSE, msgs |-> <<>>]
    /\ loops = <<>>
    /\ classes = <<>>
    /\ ctx = <<Frame("compile", 0)>>
    /\ breaks = {}
    /\ last = Op("init", 0, "", NoRes)
    /\ steps = 0
    /\ src = <<>>
    /\ out = NoOut
    /\ vm = [compiler |-> 0]

\* grayCompilerRoots: the compilers whose function and string constants are marked.
RECURSIVE GrayCompilerRoots(_, _)
GrayCompilerRoots(cs, compiler) ==
    IF compiler = 0 THEN {}
    ELSE {compiler} \cup GrayCompilerRoots(cs, cs[compiler].enclosing)

\* endCompiler without the enclosing compiler: vm->compiler = NULL.
UnlinkedToNull(v, compiler) == [v EXCEPT !.compiler = 0]

\* endCompiler: vm->compiler = compiler->enclosing.
Unlinked(v, compiler) == [v EXCEPT !.compiler = compiler.enclosing]

RootsStep(cs, c, v, op) ==
    /\ comps' = cs
    /\ ctx' = c
    /\ vm' = v
    /\ last' = Op(op, Len(cs), "", NoRes)
    /\ UNCHANGED <<parser, loops, classes, breaks, steps, src, out>>

\* initCompiler up to the store of vm->compiler: the fields of the new compiler, whose
\* parent is the compiler of the caller (NULL in compile()).
InitCompilerFields(type, name) ==
    /\ \/ Top.kind = "compile" /\ type = "TOP_LEVEL" /\ name = ""
       \/ /\ Top.kind = "body"
          /\ type \in FunctionTypes
          /\ name # ""
          /\ Len(comps) < MaxFns
          /\ Len(comps[Len(comps)].constants) < MaxAllocs
    /\ RootsStep(Append(comps, [NewCompiler(type, name)
                                   EXCEPT !.enclosing = Len(comps), !.function = FALSE,
                                          !.locals = <<>>]),
                 Append(ctx, Frame("initCompiler", 0)), vm, "initCompiler")

\* parser->vm->compiler = compiler.
InitCompilerLink ==
    /\ Top.kind = "initCompiler"
    /\ Top.n = 0
    /\ RootsStep(comps, Done(ctx), [vm EXCEPT !.compiler = Len(comps)], "link")

\* newFunction, the copy of the name, and local slot 0: initCompiler allocates.
InitCompilerFunction ==
    /\ Top.kind = "initCompiler"
    /\ Top.n = 1
    /\ LET c == comps[Len(comps)]
       IN  RootsStep([comps EXCEPT ![Len(comps)] =
                         [NewCompiler(c.type, c.name) EXCEPT !.enclosing = c.enclosing]],
                     Append(Pop(ctx), Frame("body", 0)), vm, "newFunction")

\* A statement of the body that adds a constant: the chunk allocates.
Allocate ==
    /\ Top.kind = "body"
    /\ Len(comps[Len(comps)].constants) < MaxAllocs
    /\ LET m == MakeConstant(Machine(comps, parser), Len(comps), NumberVal(0))
       IN  RootsStep(m.cs, ctx, vm, "constant")

\* endCompiler up to freeTable: the chunks of the function and of its parent allocate.
EndCompilerReturn ==
    /\ Top.kind = "body"
    /\ RootsStep(EndCompilerEmit(Machine(comps, parser)).cs,
                 Append(Pop(ctx), Frame("endCompiler", 0)), vm, "return")

\* freeTable and parser->vm->compiler = compiler->enclosing; the caller's Compiler is gone.
EndCompilerUnlink ==
    /\ Top.kind = "endCompiler"
    /\ RootsStep(Pop(comps),
                 IF Len(comps) = 1 THEN <<Frame("returned", 0)>> ELSE Pop(ctx),
                 Unlinked(vm, comps[Len(comps)]), "unlink")

NextRoots ==
    \/ \E type \in FunctionTypes \cup {"TOP_LEVEL"}, name \in Names \cup {""} :
           InitCompilerFields(type, name)
    \/ InitCompilerLink
    \/ InitCompilerFunction
    \/ Allocate
    \/ EndCompilerReturn
    \/ EndCompilerUnlink

SpecRoots == InitRoots /\ [][NextRoots]_vars

(***************************************************************************)
(* Expression statements, one per behaviour, over every token sequence up  *)
(* to MaxTokens.                                                           *)
(***************************************************************************)
MaxTokens == 5

ExprTokens == {"a", "b", "+", "-", "**", "=", "++", ".", "and"}

ExprInputs == UNION {[1..n -> ExprTokens] : n \in 1..MaxTokens}

InitExpr ==
    /\ InitCompiler
    /\ src \in ExprInputs
    /\ out = NoOut

ExpressionCompiled(m) ==
    /\ comps' = m.cs
    /\ parser' = Synced(ctx, m.p)
    /\ out' = [done |-> TRUE, log |-> m.log]

CompileExpr ==
    /\ ~out.done
    /\ ExpressionCompiled(ExpressionStatement([M EXCEPT !.toks = Append(src, ";")]))
    /\ ctx' = Done(ctx)
    /\ last' = Op("expression", Len(comps), "", NoRes)
    /\ steps' = steps + 1
    /\ vm' = [vm EXCEPT !.compiler = Len(comps')]
    /\ UNCHANGED <<loops, classes, breaks, src>>

NextExpr == CompileExpr

SpecExpr == InitExpr /\ [][NextExpr]_vars

(***************************************************************************)
(* Number literal statements, as many as overflow a constant pool.         *)
(***************************************************************************)
MaxOver == 2

\* The constant of a number literal and the code of its statement.
NumberEmit(c, k) == EmitByte(EmitBytes(c, k, OpCode.OP_CONSTANT, c.r), k, OpCode.OP_POP)

\* An expression statement holding a number literal: number() and emitConstant.
NumberStatement(m) == NumberEmit(MakeConstant(m, Cur(m), NumberVal(0)), Cur(m))

NumberStmt ==
    /\ CanStatement
    /\ Len(comps[Len(comps)].constants) < UINT8_COUNT + MaxOver
    /\ LET m == NumberStatement(M)
       IN  /\ comps' = m.cs
           /\ parser' = Synced(ctx, m.p)
    /\ ctx' = Done(ctx)
    /\ last' = Op("number", Len(comps), "", NoRes)
    /\ steps' = steps + 1
    /\ vm' = [vm EXCEPT !.compiler = Len(comps')]
    /\ UNCHANGED <<loops, classes, breaks, src, out>>

NextConst ==
    \/ NumberStmt
    \/ \E name \in Names : ExprStmt(name)

SpecConst == Init /\ [][NextConst]_vars

(***************************************************************************)
(* Statements that read a global, after number literal statements that     *)
(* leave the constant pool empty, nearly full or full.  src is the history *)
(* of the calls of identifierConstant: the name and the index returned.    *)
(***************************************************************************)
FillSizes == {0, UINT8_COUNT - 2, UINT8_COUNT - 1, UINT8_COUNT}

\* The top-level compiler after n number literal statements: n constants, and for each
\* of them OP_CONSTANT, its index, OP_POP.
Filled(n) ==
    [NewCompiler("TOP_LEVEL", "") EXCEPT
        !.constants = [i \in 1..n |-> NumberVal(0)],
        !.code = [j \in 1..3 * n |-> CASE j % 3 = 1 -> OpCode.OP_CONSTANT
                                       [] j % 3 = 2 -> j \div 3
                                       [] OTHER -> OpCode.OP_POP]]

InitIdent ==
    /\ \E n \in FillSizes : comps = <<Filled(n)>>
    /\ parser = [hadError |-> FALSE, panicMode |-> FALSE, msgs |-> <<>>]
    /\ loops = <<>>
    /\ classes = <<>>
    /\ ctx = <<Frame("top", 0)>>
    /\ breaks = {}
    /\ last = Op("init", 1, "", NoRes)
    /\ steps = 0
    /\ vm = [compiler |-> 1]
    /\ src = <<>>
    /\ out = NoOut

\* The expression statement `name;` at the top level: the name is a global.
IdentStmt(name) ==
    /\ steps < MaxSteps
    /\ LET v == NamedVariable(M, name, TRUE)
           m == EmitByte(v, Cur(v), OpCode.OP_POP)
       IN  /\ comps' = m.cs
           /\ parser' = Synced(ctx, m.p)
           /\ last' = Op("identifier", Cur(m), name, v.r)
           /\ src' = Append(src, [name |-> name, index |-> v.r.arg])
    /\ ctx' = Done(ctx)
    /\ steps' = steps + 1
    /\ vm' = [vm EXCEPT !.compiler = Len(comps')]
    /\ UNCHANGED <<loops, classes, breaks, out>>

NextIdent == \E name \in Names : IdentStmt(name)

SpecIdent == InitIdent /\ [][NextIdent]_vars

(***************************************************************************)
(* The `{` lookahead of statement().  The source is a sequence of tokens,  *)
(* each with the number of blanks before it; the scanner is an offset into *)
(* the text, which backTrack moves one character back.                     *)
(***************************************************************************)
MaxGap == 1

BraceLexemes == {"}", ";", ":", "a", "'k'"}

BraceInputs == [1..2 -> [lexeme : BraceLexemes, gap : 0..MaxGap]]

\* The length of a token in characters.
Width(lexeme) ==
    CASE lexeme \in {"'k'", "and"} -> 3
      [] lexeme \in {"**", "++", "--"} -> 2
      [] lexeme \in {"class", "trait"} -> 5
      [] lexeme = "EOF" -> 0
      [] OTHER -> 1

\* The offset just past token j of the text.
RECURSIVE EndOf(_, _)
EndOf(text, j) ==
    IF j = 0 THEN 0 ELSE EndOf(text, j - 1) + text[j].gap + Width(text[j].lexeme)

\* scanToken with the scanner at offset: the token and the scanner's new offset.  From
\* inside a token the scanner makes a token of its remaining characters.
RECURSIVE ScanFrom(_, _, _)
ScanFrom(text, offset, j) ==
    IF j > Len(text) THEN [lexeme |-> "EOF", end |-> offset]
    ELSE IF offset >= EndOf(text, j) THEN ScanFrom(text, offset, j + 1)
    ELSE IF offset <= EndOf(text, j) - Width(text[j].lexeme)
    THEN [lexeme |-> text[j].lexeme, end |-> EndOf(text, j)]
    ELSE [lexeme |-> "PARTIAL", end |-> EndOf(text, j)]

ScanToken(text, offset) == ScanFrom(text, offset, 1)

\* The tokens the scanner returns from offset on.
RECURSIVE Rest(_, _)
Rest(text, offset) ==
    LET t == ScanToken(text, offset)
    IN  IF t.lexeme = "EOF" THEN <<>> ELSE <<t.lexeme>> \o Rest(text, t.end)

\* statement() after match(TOKEN_LEFT_BRACE): the lookahead, and where it leaves the
\* parser and the scanner.
Lookahead(text) ==
    LET previous == "{"
        curtok == ScanToken(text, Width("{"))
        current == ScanToken(text, curtok.end)
    IN  IF current.lexeme = "}" /\ current.lexeme = ";"
        THEN [kind |-> "dict", previous |-> curtok.lexeme, current |-> previous,
              scan |-> current.end - 2]
        ELSE IF current.lexeme = ":"
        THEN [kind |-> "dict", previous |-> curtok.lexeme, current |-> previous,
              scan |-> current.end - (Width(current.lexeme) + Width(curtok.lexeme))]
        ELSE [kind |-> "block", previous |-> previous, current |-> curtok.lexeme,
              scan |-> current.end - Width(current.lexeme)]

\* The `{` branch of statement().
StatementBrace(m, text) ==
    LET la == Lookahead(text)
        k == Cur(m)
        r == [m EXCEPT !.toks = <<la.current>> \o Rest(text, la.scan), !.prev = la.previous]
    IN  IF la.kind = "dict" THEN ExpressionStatement(r)
        ELSE EndScope(Block(BeginScope(r, k)), k)

InitBrace ==
    /\ InitCompiler
    /\ src \in BraceInputs
    /\ out = NoOut

BraceCompiled(m, la, text) ==
    /\ comps' = Recover(m).cs
    /\ parser' = Recover(m).p
    /\ out' = [done |-> TRUE, kind |-> la.kind, previous |-> la.previous,
               current |-> la.current, next |-> Rest(text, la.scan)]

CompileBrace ==
    /\ ~out.done
    /\ LET text == <<[lexeme |-> "{", gap |-> 0]>> \o src
       IN  BraceCompiled(StatementBrace(M, text), Lookahead(text), text)
    /\ ctx' = Done(ctx)
    /\ last' = Op("statement", Len(comps), "", NoRes)
    /\ steps' = steps + 1
    /\ vm' = [vm EXCEPT !.compiler = Len(comps')]
    /\ UNCHANGED <<loops, classes, breaks, src>>

NextBrace == CompileBrace

SpecBrace == InitBrace /\ [][NextBrace]_vars

(***************************************************************************)
(* String literals: string() on every content up to MaxStr bytes.          *)
(***************************************************************************)
MaxStr == 5

\* backslash, n, t, double quote, a
StrBytes == {92, 110, 116, 34, 97}

PadBytes == {0, 92}

StrInputs == UNION {[1..n -> StrBytes] : n \in 0..MaxStr}

InitString ==
    /\ InitCompiler
    /\ src \in StrInputs
    /\ out = NoOut

CompileString ==
    /\ ~out.done
    /\ \E pad \in PadBytes :
           LET m == StringToken(M, src, pad)
               d == ParseString(Append(src, pad), Len(src))
           IN  /\ comps' = m.cs
               /\ parser' = m.p
               /\ out' = [done |-> TRUE, string |-> SubSeq(d.string, 1, d.length),
                          length |-> d.length]
    /\ last' = Op("string", Len(comps), "", NoRes)
    /\ steps' = steps + 1
    /\ vm' = [vm EXCEPT !.compiler = Len(comps')]
    /\ UNCHANGED <<loops, classes, ctx, breaks, src>>

NextString == CompileString

SpecString == InitString /\ [][NextString]_vars

(***************************************************************************)
(* Compound assignments: one statement `target op= rhs;` at the top level, *)
(* in a function or in a function nested in a function.                    *)
(***************************************************************************)
\* funDeclaration up to the body of the function.
FunDeclarationHeader(m) ==
    FunctionHeader(ParseVariableToken(Consume(m, "IDENTIFIER", MsgFunction)), "FUNCTION")

CompoundOps == AssignOps \ {"="}

\* The tokens between the statement and the start of the script: none, `def a(a) {`, or
\* `def a(a) { def b(b) {` (each `def` is consumed by declaration()).
SceneTokens(scene) ==
    CASE scene = 0 -> <<>>
      [] scene = 1 -> <<"a", "(", "a", ")", "{">>
      [] scene = 2 -> <<"a", "(", "a", ")", "{", "b", "(", "b", ")", "{">>

RECURSIVE Scene(_, _)
Scene(m, scene) == IF scene = 0 THEN m ELSE FunDeclarationHeader(Scene(m, scene - 1))

CompoundTargets ==
    {<<n>> : n \in Names}
        \cup {<<n, ".", p>> : n \in Names, p \in Names}
        \cup {<<n, "[", i, "]">> : n \in Names, i \in Names}

CompoundRhs == {<<n>> : n \in Names} \cup {<<n, "+", p>> : n \in Names, p \in Names}

CompoundInputs == [scene : 0..2, target : CompoundTargets, op : CompoundOps, rhs : CompoundRhs]

InitCompound ==
    /\ InitCompiler
    /\ src \in CompoundInputs
    /\ out = NoOut

CompileCompound ==
    /\ ~out.done
    /\ LET toks == SceneTokens(src.scene) \o src.target \o <<src.op>> \o src.rhs \o <<";">>
           m == ExpressionStatement(Scene([M EXCEPT !.toks = toks], src.scene))
       IN  /\ comps' = m.cs
           /\ parser' = m.p
           /\ last' = Op("compound", Cur(m), "", NoRes)
    /\ out' = [done |-> TRUE]
    /\ steps' = steps + 1
    /\ vm' = [vm EXCEPT !.compiler = Len(comps')]
    /\ UNCHANGED <<loops, classes, ctx, breaks, src>>

NextCompound == CompileCompound

SpecCompound == InitCompound /\ [][NextCompound]_vars

(***************************************************************************)
(* A loop with a `continue` in its body: a while loop, or a for loop with  *)
(* or without each of its clauses, at the top level or in a function,      *)
(* inside a block with a local or not; the body is the `continue` alone   *)
(* or nested blocks that each declare locals before it.                    *)
(***************************************************************************)
\* varDeclaration of one name without initializer.
LocalVarDefine(p, k) == DefineVariable(EmitByte(p, k, OpCode.OP_NIL), k, p.r)

LocalVar(m, k, name) == LocalVarDefine(ParseVariable(m, k, name), k)

\* forStatement: the exit condition, the literal `true`; returns loop.end.
ForCondition(m, k, cond) ==
    IF cond
    THEN LET j == EmitJump(EmitByte(m, k, OpCode.OP_TRUE), k, OpCode.OP_JUMP_IF_FALSE)
         IN  Ret(EmitByte(j, k, OpCode.OP_POP), j.r)
    ELSE Ret(m, -1)

\* forStatement: the increment clause, the literal `true`; returns loop.start.
ForIncrement(m, k, incr, start) ==
    IF incr
    THEN LET bodyJump == EmitJump(m, k, OpCode.OP_JUMP)
             e == EmitByte(EmitByte(bodyJump, k, OpCode.OP_TRUE), k, OpCode.OP_POP)
         IN  Ret(PatchJump(EmitLoop(e, k, start), k, bodyJump.r), Count(bodyJump, k))
    ELSE Ret(m, start)

\* forStatement from the initialization clause to the body; returns the loop.
ForClauses(i, k, cond, incr) ==
    LET c == ForCondition(i, k, cond)
        n == ForIncrement(c, k, incr, Count(i, k))
    IN  Ret(n, [start |-> n.r, body |-> Count(n, k), end |-> c.r,
                scopeDepth |-> i.cs[k].scopeDepth, k |-> k])

ForBegin(m, k, var, cond, incr) ==
    ForClauses(IF var THEN LocalVar(BeginScope(m, k), k, "a") ELSE BeginScope(m, k),
               k, cond, incr)

\* The end of the loop statement: the jump back, endLoop, and for `for` endScope.
LoopEnd(m, k, loop, kind) ==
    IF kind = "for" THEN EndScope(EndLoop(EmitLoop(m, k, loop.start), k, loop), k)
    ELSE EndLoop(EmitLoop(m, k, loop.start), k, loop)

BlockVars(m, k, n) ==
    CASE n = 0 -> m
      [] n = 1 -> LocalVar(m, k, "b")
      [] OTHER -> LocalVar(LocalVar(m, k, "b"), k, "c")

\* The body: blocks within blocks, each with its locals, and `continue;` in the innermost;
\* returns where the code of the `continue` begins.
RECURSIVE LoopBody(_, _, _, _)
LoopBody(m, k, loop, body) ==
    IF body = <<>> THEN Ret(ContinueInLoop(m, k, loop), Count(m, k))
    ELSE EndScope(LoopBody(BlockVars(BeginScope(m, k), k, Head(body)), k, loop, Tail(body)), k)

LoopBodies == {<<>>, <<0>>, <<1>>, <<2>>, <<1, 1>>, <<2, 1>>}

LoopInputs ==
    [scene : 0..1, outer : BOOLEAN, kind : {"for", "while"}, var : BOOLEAN, cond : BOOLEAN,
     incr : BOOLEAN, body : LoopBodies]

\* A while loop has its condition and no other clause.
InitLoop ==
    /\ InitCompiler
    /\ src \in {i \in LoopInputs : i.kind = "while" => (~i.var /\ i.cond /\ ~i.incr)}
    /\ out = NoOut

\* The loop statement after the code before it.
LoopStatement(o, k) ==
    LET b == IF src.kind = "for" THEN ForBegin(o, k, src.var, src.cond, src.incr)
             ELSE WhileBegin(o, k)
        c == LoopBody(b, k, b.r, src.body)
    IN  Ret(LoopEnd(c, k, b.r, src.kind), [begin |-> Count(o, k), at |-> c.r])

CompileLoop ==
    /\ ~out.done
    /\ LET s == Scene([M EXCEPT !.toks = SceneTokens(src.scene)], src.scene)
           k == Cur(s)
           m == LoopStatement(IF src.outer THEN LocalVar(BeginScope(s, k), k, "c") ELSE s, k)
       IN  /\ comps' = m.cs
           /\ parser' = m.p
           /\ last' = Op("loop", k, "", NoRes)
           /\ out' = [done |-> TRUE, begin |-> m.r.begin, at |-> m.r.at]
    /\ steps' = steps + 1
    /\ vm' = [vm EXCEPT !.compiler = Len(comps')]
    /\ UNCHANGED <<loops, classes, ctx, breaks, src>>

NextLoop == CompileLoop

SpecLoop == InitLoop /\ [][NextLoop]_vars

(***************************************************************************)
(* Expression statements that begin with a prefix ++ or --, at the top     *)
(* level, in a function and in a nested function.                          *)
(***************************************************************************)
MaxTarget == 3

PrefixOps == {"++", "--"}

PrefixTokens == Names \cup {".", "=", "-", "["}

PrefixTargets == UNION {[1..n -> PrefixTokens] : n \in 1..MaxTarget}

PrefixInputs == [scene : 0..2, op : PrefixOps, target : PrefixTargets]

InitPrefix ==
    /\ InitCompiler
    /\ src \in PrefixInputs
    /\ out = NoOut

CompilePrefix ==
    /\ ~out.done
    /\ LET toks == SceneTokens(src.scene) \o <<src.op>> \o src.target \o <<";">>
           m == ExpressionStatement(Scene([M EXCEPT !.toks = toks], src.scene))
       IN  /\ comps' = m.cs
           /\ parser' = m.p
           /\ last' = Op("prefix", Cur(m), "", NoRes)
    /\ out' = [done |-> TRUE]
    /\ steps' = steps + 1
    /\ vm' = [vm EXCEPT !.compiler = Len(comps')]
    /\ UNCHANGED <<loops, classes, ctx, breaks, src>>

NextPrefix == CompilePrefix

SpecPrefix == InitPrefix /\ [][NextPrefix]_vars

(***************************************************************************)
(* Error recovery: compile() on every token sequence up to MaxSync, as far *)
(* as the end of its first declaration.                                    *)
(***************************************************************************)
MaxSync == 4

RecoveryTokens == SyncTokens \cup {"a", ";", "+", "continue", "ERROR"}

RecoveryInputs == UNION {[1..n -> RecoveryTokens] : n \in 0..MaxSync}

InitRecovery ==
    /\ InitCompiler
    /\ src \in RecoveryInputs
    /\ out = NoOut

\* What is kept of the parser at a point of the compilation.
At(m) ==
    [pos |-> m.pos, prev |-> m.prev, panicMode |-> m.p.panicMode, hadError |-> m.p.hadError,
     msgs |-> m.p.msgs, code |-> m.cs[Cur(m)].code]

\* declaration() once its statement is compiled: synchronize when the parser panics.
Recovered(before) ==
    /\ comps' = Recover(before).cs
    /\ parser' = Recover(before).p
    /\ out' = [done |-> TRUE, before |-> At(before), after |-> At(Recover(before))]

\* compile() up to the end of the first declaration; the first advance() loads the
\* current token.
CompileRecovery ==
    /\ ~out.done
    /\ Recovered(ExpressionStatement(SkipErrors([M EXCEPT !.toks = src])))
    /\ last' = Op("declaration", Len(comps), "", NoRes)
    /\ steps' = steps + 1
    /\ vm' = [vm EXCEPT !.compiler = Len(comps')]
    /\ UNCHANGED <<loops, classes, ctx, breaks, src>>

NextRecovery == CompileRecovery

SpecRecovery == InitRecovery /\ [][NextRecovery]_vars

(***************************************************************************)
(* A function declaration, its parameter list compiled one parameter per   *)
(* step.  The source is, for each parameter, whether it has a default.     *)
(***************************************************************************)
\* Parameter lists of up to MaxShape parameters take every shape; longer ones go on
\* with parameters of the form of the last.
MaxShape == 5

\* function() from the body on.
FunctionBody(m) == EndCompiler(Block(m))

FunctionStep(m, c, op) ==
    /\ comps' = m.cs
    /\ parser' = m.p
    /\ ctx' = c
    /\ last' = Op(op, Cur(m), "", NoRes)
    /\ steps' = steps + 1
    /\ vm' = [vm EXCEPT !.compiler = Len(m.cs)]
    /\ UNCHANGED <<loops, classes, breaks, out>>

\* funDeclaration and function() up to the parameter list, for `def b(`.
FunDeclarationBegin ==
    /\ Top.kind = "top"
    /\ Top.n = 0
    /\ LET v == ParseVariableToken(Consume([M EXCEPT !.toks = <<"b", "(">>], "IDENTIFIER",
                                           MsgFunction))
       IN  FunctionStep(FunctionBegin(v, "FUNCTION"), Append(ctx, Frame("params", v.r)),
                        "function")
    /\ UNCHANGED src

\* One turn of the parameter loop, for `name` or `name = a`; the frame counts 1 once a
\* parameter is compiled and 2 once one of them is optional.
ParameterStep(default) ==
    /\ Top.kind = "params"
    /\ Len(src) < MaxParams
    /\ IF Len(src) < MaxShape THEN TRUE ELSE default = src[Len(src)]
    /\ LET toks == <<ParamName(Len(src) + 1)>> \o (IF default THEN <<"=", "a">> ELSE <<>>)
           m == Parameter([M EXCEPT !.toks = toks], Top.n = 2)
       IN  FunctionStep(m, [ctx EXCEPT ![Len(ctx)].n = IF m.r THEN 2 ELSE 1], "parameter")
    /\ src' = Append(src, default)

\* The end of the parameter list, for `) {`.
ParametersDone ==
    /\ Top.kind = "params"
    /\ LET m == [M EXCEPT !.toks = <<")", "{">>]
       IN  FunctionStep(ParametersEnd(IF Top.n = 0 THEN m ELSE DefineOptional(m, Cur(m))),
                        [ctx EXCEPT ![Len(ctx)].kind = "body"], "parameters")
    /\ UNCHANGED src

\* The body and the end of funDeclaration, for `}`.
FunDeclarationEnd ==
    /\ Top.kind = "body"
    /\ LET m == FunctionBody([M EXCEPT !.toks = <<"}">>])
       IN  FunctionStep(DefineVariable(m, Cur(m), Top.arg), Done(Pop(ctx)), "endCompiler")
    /\ UNCHANGED src

NextFunction ==
    \/ FunDeclarationBegin
    \/ \E default \in BOOLEAN : ParameterStep(default)
    \/ ParametersDone
    \/ FunDeclarationEnd

SpecFunction == Init /\ [][NextFunction]_vars

(***************************************************************************)
(* The locals array at its end: a block of the top level that has declared *)
(* nearly UINT8_COUNT variables, and the statements that add a local.      *)
(***************************************************************************)
MaxLocalOps == 4

LocalSizes == {UINT8_COUNT - 2, UINT8_COUNT - 1, UINT8_COUNT}

\* The compiler after `{`, n - 1 statements `var v2; ... var vn;` and `{`.
FilledLocals(n) ==
    [NewCompiler("TOP_LEVEL", "") EXCEPT
        !.scopeDepth = 2,
        !.locals = @ \o [i \in 1..n - 1 |-> [name |-> "v" \o ToString(i + 1), depth |-> 1,
                                               isUpvalue |-> FALSE]],
        !.code = [j \in 1..n - 1 |-> OpCode.OP_NIL]]

InitLocals ==
    /\ \E n \in LocalSizes : comps = <<FilledLocals(n)>>
    /\ parser = [hadError |-> FALSE, panicMode |-> FALSE, msgs |-> <<>>]
    /\ loops = <<>>
    /\ classes = <<>>
    /\ ctx = <<Frame("top", 0), Frame("block", 0), Frame("block", 0)>>
    /\ breaks = {}
    /\ last = Op("init", 1, "", NoRes)
    /\ steps = 0
    /\ vm = [compiler |-> 1]
    /\ src = <<>>
    /\ out = NoOut

\* A variable of the outer block that every initial state has.
FilledName == "v" \o ToString(UINT8_COUNT - 2)

LocalsStep(m, c, p, op) ==
    /\ steps < MaxLocalOps
    /\ comps' = m.cs
    /\ parser' = p
    /\ ctx' = c
    /\ last' = Op(op, Cur(m), "", NoRes)
    /\ steps' = steps + 1
    /\ UNCHANGED <<loops, classes, breaks, src, out, vm>>

\* `class name {}` or `class name < super {}`, the body empty.
ClassStatement(m, k, name, super) ==
    LET c == IdentifierConstant(m, k, name)
        d == DeclareVariable(c, k, name)
        b == IF super = "" THEN EmitBytes(d, k, OpCode.OP_CLASS, c.r)
             ELSE EndScope(Subclass(NamedVariable(BeginScope(d, k), super, FALSE), k, c.r), k)
    IN  DefineVariable(b, k, c.r)

\* `var name;` in the block.
LocalsVar(name) ==
    /\ Top.kind = "block"
    /\ LET m == LocalVar(M, Cur(M), name)
       IN  LocalsStep(m, Done(ctx), Synced(ctx, m.p), "var")

\* `class a < v254 {}` in the block.
LocalsClass ==
    /\ Top.kind = "block"
    /\ LET m == ClassStatement(M, Cur(M), "a", FilledName)
       IN  LocalsStep(m, Done(ctx), Synced(ctx, m.p), "class")

\* `def name(b) {}`: the parameter is the local of the function.
FunctionStatement(m, k, name) ==
    LET v == ParseVariable(m, k, name)
        f == BeginScope([v EXCEPT !.cs = Append(@, [NewCompiler("FUNCTION", name)
                                                      EXCEPT !.enclosing = k])],
                        k + 1)
        p == DefineVariable(ParseVariable(f, k + 1, "b"), k + 1, 0)
    IN  DefineVariable(EndCompiler(p), k, v.r)

\* `def a(b) {}` in the block.
LocalsFunction ==
    /\ Top.kind = "block"
    /\ LET m == FunctionStatement(M, Cur(M), "a")
       IN  LocalsStep(m, Done(ctx), Synced(ctx, m.p), "function")

\* `with ("path", "mode")`.  With the array full the write of the local is past its end:
\* it lands in the memory that follows, or the compiler does not survive it.
LocalsWith ==
    /\ Top.kind = "block" \/ (Top.kind = "with" /\ Top.n = 0)
    /\ \/ LocalsStep(WithBegin(M, Cur(M)), Append(ctx, Frame("with", 0)), M.p, "with")
       \/ /\ Len(comps[Cur(M)].locals) >= UINT8_COUNT
          /\ LocalsStep(M, <<Frame("crashed", 0)>>, M.p, "with")

\* The body of the with statement, `0;`, and its end.
LocalsEndWith ==
    /\ Top.kind = "with"
    /\ LET k == Cur(M)
           m == EndScope(EmitByte(NumberStatement(M), k, OpCode.OP_CLOSE_FILE), k)
       IN  LocalsStep(m, Done(Pop(ctx)), Synced(Pop(ctx), m.p), "endWith")

NextLocals ==
    \/ \E name \in Names : LocalsVar(name)
    \/ LocalsClass
    \/ LocalsFunction
    \/ LocalsWith
    \/ LocalsEndWith

SpecLocals == InitLocals /\ [][NextLocals]_vars

(***************************************************************************)
(* Loops with `break` after number literal statements: the operands of the *)
(* loop body reach the value of OP_BREAK.  breaks holds, for each break    *)
(* statement of an open loop, the loop and the place of its OP_BREAK.      *)
(***************************************************************************)
MaxBreakOps == 5

BreakFills == {0, OpCode.OP_BREAK - 1, OpCode.OP_BREAK}

InitBreak ==
    /\ \E n \in BreakFills : comps = <<Filled(n)>>
    /\ parser = [hadError |-> FALSE, panicMode |-> FALSE, msgs |-> <<>>]
    /\ loops = <<>>
    /\ classes = <<>>
    /\ ctx = <<Frame("top", 0)>>
    /\ breaks = {}
    /\ last = Op("init", 1, "", NoRes)
    /\ steps = 0
    /\ vm = [compiler |-> 1]
    /\ src = <<>>
    /\ out = NoOut

BreakStep(m, c, l, b, op) ==
    /\ steps < MaxBreakOps
    /\ comps' = m.cs
    /\ parser' = Synced(c, m.p)
    /\ ctx' = c
    /\ loops' = l
    /\ breaks' = b
    /\ last' = Op(op, Cur(m), "", NoRes)
    /\ steps' = steps + 1
    /\ UNCHANGED <<classes, src, out, vm>>

\* `while {`: the loop and the block of its body.
BreakWhile ==
    /\ Len(loops) < MaxDepth
    /\ LET m == WhileBegin(M, Cur(M))
       IN  BreakStep(BeginScope(m, Cur(M)), Append(ctx, Frame("block", 0)),
                     Append(loops, m.r), breaks, "while")

\* `0;`.
BreakNumber == BreakStep(NumberStatement(M), Done(ctx), loops, breaks, "number")

\* `break;` in a loop body.
BreakInLoop ==
    /\ InLoop
    /\ LET k == Cur(M)
           m == EmitJump(DiscardLocals(M, k, TopLoop.scopeDepth, Len(comps[k].locals) - 1),
                         k, OpCode.OP_BREAK)
       IN  BreakStep(m, Done(ctx), loops,
                     breaks \cup {[loop |-> Len(loops), k |-> k, pos |-> m.r - 1]}, "break")

\* `}`: the end of the body, and of whileStatement.
BreakEndWhile ==
    /\ InLoop
    /\ LET k == Cur(M)
           m == EndLoop(EmitLoop(EndScope(M, k), k, TopLoop.start), k, TopLoop)
       IN  BreakStep(m, Done(Pop(ctx)), Pop(loops), {b \in breaks : b.loop # Len(loops)},
                     "endLoop")

NextBreak ==
    \/ BreakWhile
    \/ BreakNumber
    \/ BreakInLoop
    \/ BreakEndWhile

SpecBreak == InitBreak /\ [][NextBreak]_vars

(***************************************************************************)
(* Whole declarations and statements, at the top level and in blocks.      *)
(***************************************************************************)
MaxScopeOps == 4

ScopeStep(m, c, op, name) ==
    /\ steps < MaxScopeOps
    /\ comps' = m.cs
    /\ parser' = Synced(c, m.p)
    /\ ctx' = c
    /\ last' = Op(op, Cur(m), name, NoRes)
    /\ steps' = steps + 1
    /\ UNCHANGED <<loops, classes, breaks, src, out, vm>>

\* `{`.
ScopeOpen ==
    /\ comps[1].scopeDepth < MaxDepth
    /\ ScopeStep(BeginScope(M, 1), Append(ctx, Frame("block", 0)), "beginScope", "")

\* `}`.
ScopeClose ==
    /\ Top.kind = "block"
    /\ ScopeStep(EndScope(M, 1), Done(Pop(ctx)), "block", "")

\* `var name;`.
ScopeVar(name) == ScopeStep(LocalVar(M, 1, name), Done(ctx), "var", name)

\* `class name {}` and `class name < super {}`.
ScopeClass(name, super) ==
    ScopeStep(ClassStatement(M, 1, name, super), Done(ctx), "class", name)

\* `def name(b) {}`.
ScopeFunction(name) == ScopeStep(FunctionStatement(M, 1, name), Done(ctx), "function", name)

\* `with ("path", "mode") 0;`.
ScopeWith ==
    ScopeStep(EndScope(EmitByte(NumberStatement(WithBegin(M, 1)), 1, OpCode.OP_CLOSE_FILE), 1),
              Done(ctx), "with", "")

\* `for (;true;true) {}`, with `var a;` as its first clause or without.
ScopeFor(var) ==
    LET b == ForBegin(M, 1, var, TRUE, TRUE)
    IN  ScopeStep(LoopEnd(EndScope(BeginScope(b, 1), 1), 1, b.r, "for"), Done(ctx), "for", "")

NextScope ==
    \/ ScopeOpen
    \/ ScopeClose
    \/ \E name \in Names : ScopeVar(name)
    \/ \E name \in Names, super \in SuperNames : ScopeClass(name, super)
    \/ \E name \in Names : ScopeFunction(name)
    \/ ScopeWith
    \/ \E var \in BOOLEAN : ScopeFor(var)

SpecScope == Init /\ [][NextScope]_vars

(***************************************************************************)
(* Control flow: if/else, while, for, break, continue and expression       *)
(* statements over `and` and `or`, statement by statement, and the height  *)
(* of the operand stack along every path through the code emitted.         *)
(***************************************************************************)
MaxFlowOps == 5

\* The constants in the pool before the statements: none, or as many as make the next
\* index the byte of OP_BREAK.
FlowFills == {0, OpCode.OP_BREAK}

\* The expressions of a condition or an expression statement.
FlowExprs == {<<"a">>, <<"a", "and", "a">>, <<"a", "or", "a">>}

InitFlow ==
    /\ \E n \in FlowFills :
           /\ comps = <<Filled(n)>>
           /\ out = [done |-> FALSE, begin |-> 3 * n]
    /\ parser = [hadError |-> FALSE, panicMode |-> FALSE, msgs |-> <<>>]
    /\ loops = <<>>
    /\ classes = <<>>
    /\ ctx = <<Frame("top", 0)>>
    /\ breaks = {}
    /\ last = Op("init", 1, "", NoRes)
    /\ steps = 0
    /\ vm = [compiler |-> 1]
    /\ src = <<>>

FlowStep(m, c, l, op) ==
    /\ steps < MaxFlowOps
    /\ comps' = m.cs
    /\ parser' = Synced(c, m.p)
    /\ ctx' = c
    /\ loops' = l
    /\ last' = Op(op, Cur(m), "", NoRes)
    /\ steps' = steps + 1
    /\ UNCHANGED <<classes, breaks, src, out, vm>>

\* statement() can be entered: in a list of declarations, or as the one statement of an
\* if branch or a loop body.
CanFlow ==
    \/ Top.kind \in {"top", "block"}
    \/ Top.kind \in {"if", "else", "while", "for"} /\ Top.n = 0

\* expression() on the tokens given.
FlowExpression(m, e) == [Expression([m EXCEPT !.toks = e, !.pos = 1]) EXCEPT !.toks = <<>>]

\* `e;`.
FlowExpr(e) ==
    /\ CanFlow
    /\ FlowStep(EmitByte(FlowExpression(M, e), 1, OpCode.OP_POP), Done(ctx), loops,
                "expression")

\* ifStatement up to the then branch; returns elseJump.
IfBegin(m, k, e) ==
    LET j == EmitJump(FlowExpression(m, e), k, OpCode.OP_JUMP_IF_FALSE)
    IN  Ret(EmitByte(j, k, OpCode.OP_POP), j.r)

\* ifStatement from the end of the then branch to the else branch; returns endJump.
IfElse(m, k, elseJump) ==
    LET j == EmitJump(m, k, OpCode.OP_JUMP)
    IN  Ret(EmitByte(PatchJump(j, k, elseJump), k, OpCode.OP_POP), j.r)

\* `if (e)`.
FlowIf(e) ==
    /\ CanFlow
    /\ LET m == IfBegin(M, 1, e)
       IN  FlowStep(m, Append(ctx, Frame("if", m.r)), loops, "if")

\* The end of the then branch: `else`, or the end of the statement.
FlowElse(else) ==
    /\ Top.kind = "if"
    /\ Top.n = 1
    /\ LET m == IfElse(M, 1, Top.arg)
       IN  IF else THEN FlowStep(m, Append(Pop(ctx), Frame("else", m.r)), loops, "else")
           ELSE FlowStep(PatchJump(m, 1, m.r), Done(Pop(ctx)), loops, "endIf")

\* The end of the else branch.
FlowEndIf ==
    /\ Top.kind = "else"
    /\ Top.n = 1
    /\ FlowStep(PatchJump(M, 1, Top.arg), Done(Pop(ctx)), loops, "endIf")

\* whileStatement up to the body, for `while (e)`; returns the loop.
WhileCondition(m, k, e) ==
    LET j == EmitJump(FlowExpression(m, e), k, OpCode.OP_JUMP_IF_FALSE)
        b == EmitByte(j, k, OpCode.OP_POP)
    IN  Ret(b, [start |-> Count(m, k), body |-> Count(b, k), end |-> j.r,
                scopeDepth |-> m.cs[k].scopeDepth, k |-> k])

\* `while (e)`.
FlowWhile(e) ==
    /\ CanFlow
    /\ Len(loops) < MaxDepth
    /\ LET m == WhileCondition(M, 1, e)
       IN  FlowStep(m, Append(ctx, Frame("while", 0)), Append(loops, m.r), "while")

\* `while {`: the loop and the block of its body.
FlowWhileBlock ==
    /\ CanFlow
    /\ Len(loops) < MaxDepth
    /\ LET m == WhileBegin(M, 1)
       IN  FlowStep(BeginScope(m, 1), ctx \o <<Frame("while", 0), Frame("block", 0)>>,
                    Append(loops, m.r), "while")

\* `for (` with its clauses.
FlowFor(var, cond, incr) ==
    /\ CanFlow
    /\ Len(loops) < MaxDepth
    /\ LET m == ForBegin(M, 1, var, cond, incr)
       IN  FlowStep(m, Append(ctx, Frame("for", 0)), Append(loops, m.r), "for")

\* The end of the body of a loop.
FlowEndLoop ==
    /\ Top.kind \in {"while", "for"}
    /\ Top.n = 1
    /\ FlowStep(LoopEnd(M, 1, TopLoop, Top.kind), Done(Pop(ctx)), Pop(loops), "endLoop")

\* `break;` in a loop.
FlowBreak ==
    /\ CanFlow
    /\ InLoop
    /\ FlowStep(EmitJump(DiscardLocals(M, 1, TopLoop.scopeDepth, Len(comps[1].locals) - 1),
                         1, OpCode.OP_BREAK),
                Done(ctx), loops, "break")

\* `continue;` in a loop.
FlowContinue ==
    /\ CanFlow
    /\ InLoop
    /\ FlowStep(ContinueInLoop(M, 1, TopLoop), Done(ctx), loops, "continue")

\* `{`.
FlowBlock ==
    /\ CanFlow
    /\ comps[1].scopeDepth < MaxDepth
    /\ FlowStep(BeginScope(M, 1), Append(ctx, Frame("block", 0)), loops, "beginScope")

\* `var b;` at the head of a block.
FlowVar ==
    /\ Top.kind = "block"
    /\ Top.n = 0
    /\ FlowStep(LocalVar(M, 1, "b"), Done(ctx), loops, "var")

\* `}`.
FlowEndBlock ==
    /\ Top.kind = "block"
    /\ FlowStep(EndScope(M, 1), Done(Pop(ctx)), loops, "endScope")

NextFlow ==
    \/ \E e \in FlowExprs : FlowExpr(e)
    \/ \E e \in FlowExprs : FlowIf(e)
    \/ \E else \in BOOLEAN : FlowElse(else)
    \/ FlowEndIf
    \/ \E e \in FlowExprs : FlowWhile(e)
    \/ FlowWhileBlock
    \/ \E var, cond, incr \in BOOLEAN : FlowFor(var, cond, incr)
    \/ FlowEndLoop
    \/ FlowBreak
    \/ FlowContinue
    \/ FlowBlock
    \/ FlowVar
    \/ FlowEndBlock

SpecFlow == InitFlow /\ [][NextFlow]_vars

\* The instructions that push one value: their lengths in bytes.
Pushes ==
    (OpCode.OP_CONSTANT :> 2) @@ (OpCode.OP_GET_LOCAL :> 2) @@ (OpCode.OP_GET_GLOBAL :> 2)
    @@ (OpCode.OP_NIL :> 1) @@ (OpCode.OP_TRUE :> 1) @@ (OpCode.OP_FALSE :> 1)

\* The 16-bit operand of the jump at pc.
JumpOperand(code, pc) == code[pc + 2] * 256 + code[pc + 3]

NoHeights(code) == [ok |-> TRUE, at |-> [pc \in 0..Len(code) |-> -1]]

\* The height of the operand stack before each instruction the VM can reach from pc with
\* height h; ok is lost where two paths meet at different heights, the stack is popped
\* below the height of entry, or the VM leaves the code or meets no instruction of these
\* statements.
RECURSIVE Heights(_, _, _, _)
Heights(code, s, pc, h) ==
    IF ~s.ok THEN s
    ELSE IF pc < 0 \/ pc > Len(code) \/ h < 0 THEN [s EXCEPT !.ok = FALSE]
    ELSE IF s.at[pc] # -1 THEN [s EXCEPT !.ok = s.at[pc] = h]
    ELSE LET t == [s EXCEPT !.at[pc] = h]
             op == code[pc + 1]
         IN  IF pc = Len(code) THEN t
             ELSE IF op \in DOMAIN Pushes THEN Heights(code, t, pc + Pushes[op], h + 1)
             ELSE IF op = OpCode.OP_POP THEN Heights(code, t, pc + 1, h - 1)
             ELSE IF op \notin {OpCode.OP_JUMP, OpCode.OP_JUMP_IF_FALSE, OpCode.OP_LOOP}
                     \/ pc + 3 > Len(code)
             THEN [t EXCEPT !.ok = FALSE]
             ELSE IF op = OpCode.OP_JUMP
             THEN Heights(code, t, pc + 3 + JumpOperand(code, pc), h)
             ELSE IF op = OpCode.OP_LOOP
             THEN Heights(code, t, pc + 3 - JumpOperand(code, pc), h)
             ELSE Heights(code, Heights(code, t, pc + 3, h), pc + 3 + JumpOperand(code, pc),
                          h)

(***************************************************************************)
(* Locals a closure captures, and the ways out of their scope: the end of  *)
(* the block, `break` and `continue`.                                      *)
(***************************************************************************)
MaxCaptureOps == 5

CaptureStep(m, c, l, op) ==
    /\ steps < MaxCaptureOps
    /\ comps' = m.cs
    /\ parser' = Synced(c, m.p)
    /\ ctx' = c
    /\ loops' = l
    /\ last' = Op(op, Cur(m), "", NoRes)
    /\ steps' = steps + 1
    /\ UNCHANGED <<classes, breaks, src, out, vm>>

\* `def name() { ref; }`.
ClosureStatement(m, k, name, ref) ==
    LET v == ParseVariable(m, k, name)
        f == BeginScope([v EXCEPT !.cs = Append(@, [NewCompiler("FUNCTION", name)
                                                      EXCEPT !.enclosing = k])],
                        k + 1)
        e == EmitByte(NamedVariable(f, ref, TRUE), k + 1, OpCode.OP_POP)
    IN  DefineVariable(EndCompiler(e), k, v.r)

\* `{`.
CaptureBlock ==
    /\ comps[1].scopeDepth < MaxDepth
    /\ CaptureStep(BeginScope(M, 1), Append(ctx, Frame("block", 0)), loops, "beginScope")

\* `while {`: the loop and the block of its body.
CaptureWhile ==
    /\ comps[1].scopeDepth < MaxDepth
    /\ LET m == WhileBegin(M, 1)
       IN  CaptureStep(BeginScope(m, 1), Append(ctx, Frame("loop", 0)), Append(loops, m.r),
                       "while")

\* `var name;` in a block.
CaptureVar(name) ==
    /\ Top.kind # "top"
    /\ CaptureStep(LocalVar(M, 1, name), Done(ctx), loops, "var")

\* `def name() { ref; }` in a block.
CaptureClosure(name, ref) ==
    /\ Top.kind # "top"
    /\ CaptureStep(ClosureStatement(M, 1, name, ref), Done(ctx), loops, "function")

\* `break;` in a loop.
CaptureBreak ==
    /\ InLoop
    /\ CaptureStep(EmitJump(DiscardLocals(M, 1, TopLoop.scopeDepth,
                                          Len(comps[1].locals) - 1),
                            1, OpCode.OP_BREAK),
                   Done(ctx), loops, "break")

\* `continue;` in a loop.
CaptureContinue ==
    /\ InLoop
    /\ CaptureStep(ContinueInLoop(M, 1, TopLoop), Done(ctx), loops, "continue")

\* `}`: the end of a block, and of whileStatement when the block is the body of a loop.
CaptureEnd ==
    /\ Top.kind # "top"
    /\ IF Top.kind = "loop"
       THEN CaptureStep(EndLoop(EmitLoop(EndScope(M, 1), 1, TopLoop.start), 1, TopLoop),
                        Done(Pop(ctx)), Pop(loops), "endScope")
       ELSE CaptureStep(EndScope(M, 1), Done(Pop(ctx)), loops, "endScope")

NextCapture ==
    \/ CaptureBlock
    \/ CaptureWhile
    \/ \E name \in Names : CaptureVar(name)
    \/ \E name, ref \in Names : CaptureClosure(name, ref)
    \/ CaptureBreak
    \/ CaptureContinue
    \/ CaptureEnd

SpecCapture == Init /\ [][NextCapture]_vars

(***************************************************************************)
(* compile() loop by loop, on every text up to MaxText tokens.  src is the *)
(* text from the current token on, each token with the blanks before it;   *)
(* out.prev is parser->previous.  A frame of ctx is a loop that has not     *)
(* exited: n says whether it has begun an iteration, arg how many tokens   *)
(* were left when the last one began, constant the name a class or method  *)
(* defines when its body ends.                                             *)
(***************************************************************************)
MaxText == 4

TextLexemes == {"{", "}", "class", "trait", "a", ";"}

TextInputs == UNION {[1..n -> [lexeme : TextLexemes, gap : 0..MaxGap]] : n \in 0..MaxText}

LoopFrame(kind, constant) == [kind |-> kind, n |-> 0, arg |-> 0, constant |-> constant]

InitText ==
    /\ comps = <<NewCompiler("TOP_LEVEL", "")>>
    /\ parser = [hadError |-> FALSE, panicMode |-> FALSE, msgs |-> <<>>]
    /\ loops = <<>>
    /\ classes = <<>>
    /\ ctx = <<LoopFrame("compile", 0)>>
    /\ breaks = {}
    /\ last = Op("init", 1, "", NoRes)
    /\ steps = 0
    /\ vm = [compiler |-> 1]
    /\ \E text \in TextInputs : src = SubSeq(text, 1, Len(text))
    /\ out = [done |-> FALSE, prev |-> ""]

\* The parser at the current token.
TextMachine == [M EXCEPT !.toks = [i \in DOMAIN src |-> src[i].lexeme], !.prev = out.prev]

\* The text left after the tokens the machine has consumed.
TextAfter(m) == SubSeq(src, m.pos, Len(src))

TextStep(m, rest, c, op) ==
    /\ comps' = m.cs
    /\ parser' = m.p
    /\ src' = rest
    /\ out' = [done |-> c[Len(c)].kind = "returned", prev |-> m.prev]
    /\ ctx' = c
    /\ last' = Op(op, Len(m.cs), "", NoRes)
    /\ UNCHANGED <<loops, classes, breaks, steps, vm>>

\* The frame on top begins an iteration.
Iterating(c) == [c EXCEPT ![Len(c)].n = 1, ![Len(c)].arg = Len(src)]

\* declaration() after its statement: synchronize, entered, when the parser panics.
TextRecover(m, rest, c, op) ==
    IF m.p.panicMode
    THEN TextStep([m EXCEPT !.p.panicMode = FALSE], rest, Append(c, LoopFrame("sync", 0)), op)
    ELSE TextStep(m, rest, c, op)

\* classDeclaration up to the body, with no superclass clause.
ClassHeader(m) ==
    LET n == Consume(m, "IDENTIFIER", "Expect class name.")
        c == IdentifierConstant(n, Cur(n), n.prev)
        d == EmitBytes(DeclareVariable(c, Cur(n), n.prev), Cur(n), OpCode.OP_CLASS, c.r)
    IN  Ret(Consume(d, "{", "Expect '{' before class body."), c.r)

\* traitDeclaration up to the body.
TraitHeader(m) ==
    LET n == Consume(m, "IDENTIFIER", "Expect trait name.")
        c == IdentifierConstant(n, Cur(n), n.prev)
        d == EmitBytes(DeclareVariable(c, Cur(n), n.prev), Cur(n), OpCode.OP_TRAIT, c.r)
    IN  Ret(Consume(d, "{", "Expect '{' before trait body."), c.r)

\* method() up to the body of the function.
MethodHeader(m) ==
    LET s == Match(m, "static")
        n == Consume(s, "IDENTIFIER", "Expect method name.")
        c == IdentifierConstant(n, Cur(n), n.prev)
        type == IF n.prev = "init" THEN "INITIALIZER"
                ELSE IF s.r THEN "STATIC" ELSE "METHOD"
    IN  Ret(FunctionHeader(c, type), c.r)

\* declaration() in the loop of frame stack c, whose top frame has begun the iteration.
DeclarationText(c) ==
    LET m == TextMachine
    IN  IF Check(m, "class")
        THEN LET h == ClassHeader(Advance(m))
             IN  TextStep(h, TextAfter(h), Append(c, LoopFrame("class", h.r)), "class")
        ELSE IF Check(m, "trait")
        THEN LET h == TraitHeader(Advance(m))
             IN  TextStep(h, TextAfter(h), Append(c, LoopFrame("trait", h.r)), "trait")
        ELSE IF Check(m, "{")
        THEN LET text == <<[lexeme |-> "{", gap |-> 0]>> \o Tail(src)
                 la == Lookahead(text)
                 e == ExpressionStatement(
                          [m EXCEPT !.toks = <<la.current>> \o Rest(text, la.scan),
                                    !.prev = la.previous])
             IN  IF la.kind = "dict"
                 THEN TextRecover(e, [i \in 1..Len(e.toks) - e.pos + 1 |->
                                         [lexeme |-> e.toks[e.pos + i - 1], gap |-> 0]],
                                  c, "dict")
                 ELSE TextStep(BeginScope(Advance(m), Cur(m)), Tail(src),
                               Append(c, LoopFrame("block", 0)), "beginScope")
        ELSE LET e == ExpressionStatement(m)
             IN  TextRecover(e, TextAfter(e), c, "expression")

\* block() leaves its loop at `}` without the test of TOKEN_EOF.
BlockExitsAtBrace(m) == Check(m, "}")

\* The test of the loops of block() and of the class body.
BlockExits(m) == Check(m, "}") \/ Check(m, "EOF")

\* compile() up to its first advance.
CompileText ==
    /\ Top.kind = "compile"
    /\ ctx' = <<LoopFrame("top", 0)>>
    /\ last' = Op("advance", 1, "", NoRes)
    /\ UNCHANGED <<comps, parser, loops, classes, breaks, steps, src, vm, out>>

\* compile(): a declaration, until TOKEN_EOF is matched.
TopIteration ==
    /\ Top.kind = "top"
    /\ LET m == TextMachine
       IN  IF Check(m, "EOF")
           THEN TextStep(EndCompilerEmit(m), <<>>, <<LoopFrame("returned", 0)>>, "compile")
           ELSE DeclarationText(Iterating(ctx))

\* block() of a block statement, then endScope.
BlockIteration ==
    /\ Top.kind = "block"
    /\ LET m == TextMachine
           e == EndScope(Consume(m, "}", MsgBlock), Cur(m))
       IN  IF BlockExits(m) THEN TextRecover(e, TextAfter(e), Pop(ctx), "endScope")
           ELSE DeclarationText(Iterating(ctx))

\* block() of the body of a method, then endCompiler and OP_METHOD or OP_TRAIT_METHOD.
FunIteration ==
    /\ Top.kind = "fun"
    /\ LET m == TextMachine
           e == EndCompiler(Consume(m, "}", MsgBlock))
           op == IF ctx[Len(ctx) - 1].kind = "trait" THEN OpCode.OP_TRAIT_METHOD
                 ELSE OpCode.OP_METHOD
       IN  IF BlockExits(m)
           THEN TextStep(EmitBytes(e, Cur(e), op, Top.constant), TextAfter(e),
                         Pop(ctx), "endCompiler")
           ELSE DeclarationText(Iterating(ctx))

\* The loop of the class body: a method, until `}`; then the class is defined.
ClassIteration ==
    /\ Top.kind = "class"
    /\ LET m == TextMachine
           e == DefineVariable(Consume(m, "}", "Expect '}' after class body."), Cur(m),
                               Top.constant)
           h == MethodHeader(m)
       IN  IF BlockExits(m) THEN TextRecover(e, TextAfter(e), Pop(ctx), "endClass")
           ELSE TextStep(h, TextAfter(h), Append(Iterating(ctx), LoopFrame("fun", h.r)),
                         "method")

\* The loop of the trait body: a method, until `}`; then the trait is defined.
TraitIteration ==
    /\ Top.kind = "trait"
    /\ LET m == TextMachine
           e == DefineVariable(Consume(m, "}", "Expect '}' after trait body."), Cur(m),
                               Top.constant)
           h == MethodHeader(m)
       IN  IF BlockExits(m) THEN TextRecover(e, TextAfter(e), Pop(ctx), "endTrait")
           ELSE TextStep(h, TextAfter(h), Append(Iterating(ctx), LoopFrame("fun", h.r)),
                         "method")

\* The loop of synchronize.
SyncIteration ==
    /\ Top.kind = "sync"
    /\ LET m == TextMachine
       IN  IF Check(m, "EOF") \/ m.prev = ";" \/ TokenType(CurTok(m)) \in SyncTokens
           THEN TextStep(m, src, Pop(ctx), "synchronized")
           ELSE TextStep(Advance(m), TextAfter(Advance(m)), Iterating(ctx), "synchronize")

NextText ==
    \/ CompileText
    \/ TopIteration
    \/ BlockIteration
    \/ FunIteration
    \/ ClassIteration
    \/ TraitIteration
    \/ SyncIteration

\* compile() runs to its return without being suspended: a behaviour in which it has not
\* returned takes its next step again and again.
SpecText == InitText /\ [][NextText]_vars /\ ([]<>(out.done) \/ []<><<NextText>>_vars)

(***************************************************************************)
(* Properties of the statement compiler.                                   *)
(***************************************************************************)
Range(seq) == {seq[i] : i \in 1..Len(seq)}

\* The bytes a step appends to the chunk of compiler k.
Appended(k) == SubSeq(comps'[k].code, Len(comps[k].code) + 1, Len(comps'[k].code))

\* The number of `with` frames between the top of the frame stack and the innermost
\* frame of kind target, or -1 when a frame of a kind in stops (or the bottom) comes first.
RECURSIVE WithsUpTo(_, _, _, _)
WithsUpTo(c, i, target, stops) ==
    IF i = 0 THEN -1
    ELSE IF c[i].kind = target THEN 0
    ELSE IF c[i].kind \in stops THEN -1
    ELSE LET r == WithsUpTo(c, i - 1, target, stops)
         IN  IF r = -1 THEN -1 ELSE IF c[i].kind = "with" THEN r + 1 ELSE r

\* The `with` statements a step's statement leaves.
WithsLeft ==
    CASE last'.op = "endWith" -> 1
      [] last'.op = "return" -> WithsUpTo(ctx, Len(ctx), "fun", {"top"})
      [] last'.op \in {"break", "continue"} -> WithsUpTo(ctx, Len(ctx), "while", {"fun", "top"})
      [] OTHER -> 0

\* C1: every statement that leaves the body of a `with` (its normal end, a return inside
\* it, a break or continue out of an enclosing loop) emits OP_CLOSE_FILE for the file
\* before the instruction that transfers control.
C1_WithClosedOnEveryExit ==
    [][WithsLeft > 0 => OpCode.OP_CLOSE_FILE \in Range(Appended(last'.k))]_vars

\* C2: when endLoop has run, every break written in the loop's body is an OP_JUMP in the
\* loop's chunk whose target is the first instruction after the loop, and no OP_BREAK
\* remains from loop.body to the end of the chunk.
C2_BreaksPatchedByEndLoop ==
    [][last'.op = "endLoop" =>
          LET k == last'.k
              code == comps'[k].code
          IN  /\ \A b \in breaks : b.loop = Len(loops) =>
                     /\ b.k = k
                     /\ code[b.pos + 1] = OpCode.OP_JUMP
                     /\ b.pos + 3 + code[b.pos + 2] * 256 + code[b.pos + 3] = Len(code)
              /\ \A i \in (TopLoop.body + 1)..Len(code) : code[i] # OpCode.OP_BREAK]_vars

\* The innermost compiler at or below j that holds a local called name, or 0.
RECURSIVE Declarer(_, _, _)
Declarer(cs, j, name) ==
    IF j = 0 THEN 0
    ELSE IF LocalIndex(cs[j].locals, name, Len(cs[j].locals) - 1) # -1 THEN j
    ELSE Declarer(cs, j - 1, name)

\* Compiler j holds the upvalue (index, isLocal), every compiler below it down to k holds
\* an upvalue of its parent's one, and the one of compiler k has index result.
RECURSIVE Captured(_, _, _, _, _, _)
Captured(cs, j, k, index, isLocal, result) ==
    \E u \in 1..Len(cs[j].upvalues) :
        /\ cs[j].upvalues[u] = [index |-> index, isLocal |-> isLocal]
        /\ IF j = k THEN result = u - 1 ELSE Captured(cs, j + 1, k, u - 1, FALSE, result)

\* C3: a reference to a name that is no local of the referencing function, and that the
\* nearest declaring function d holds in slot s, marks that local isUpvalue, gives the
\* function nested in d the upvalue (s, isLocal = TRUE) and every deeper function down to
\* the referencing one the upvalue (its parent's upvalue index, isLocal = FALSE); when no
\* enclosing function declares the name, no upvalue is added and the name is a global.
C3_ResolveUpvalueChain ==
    [][(/\ last'.op = "name"
        /\ LocalIndex(comps[last'.k].locals, last'.name, Len(comps[last'.k].locals) - 1) = -1)
       => LET k == last'.k
              d == Declarer(comps, k - 1, last'.name)
              s == LocalIndex(comps[d].locals, last'.name, Len(comps[d].locals) - 1)
          IN  IF d = 0
              THEN /\ last'.res.kind = "global"
                   /\ \A j \in 1..k : comps'[j].upvalues = comps[j].upvalues
              ELSE /\ last'.res.kind = "upvalue"
                   /\ comps'[d].locals[s + 1].isUpvalue
                   /\ Captured(comps', d + 1, k, s, TRUE, last'.res.arg)]_vars

\* A reference from a function two levels below the declaring one resolved through an
\* upvalue of its parent.
C3_Witness ==
    /\ last.op = "name"
    /\ last.res.kind = "upvalue"
    /\ last.k = 3
    /\ ~comps[3].upvalues[last.res.arg + 1].isLocal
    /\ \E u \in 1..Len(comps[2].upvalues) : comps[2].upvalues[u].isLocal

\* The effect of endScope on a compiler, old before the call and new after it.
EndScopeExact(old, new) ==
    LET removed == Len(old.locals) - Len(new.locals)
    IN  /\ new.scopeDepth = old.scopeDepth - 1
        /\ removed >= 0
        /\ new.locals = SubSeq(old.locals, 1, Len(new.locals))
        /\ \A i \in 1..Len(old.locals) :
               (i > Len(new.locals)) <=> (old.locals[i].depth > new.scopeDepth)
        /\ Len(new.code) = Len(old.code) + removed
        /\ \A j \in 1..removed :
               new.code[Len(old.code) + j] =
                   IF old.locals[Len(old.locals) - j + 1].isUpvalue
                   THEN OpCode.OP_CLOSE_UPVALUE ELSE OpCode.OP_POP

\* C4: endScope decrements scopeDepth, removes exactly the locals whose depth exceeds the
\* new scopeDepth, and emits for each of them, from the top down, OP_CLOSE_UPVALUE if it
\* is captured and OP_POP otherwise.
C4_EndScopeRemovesScope ==
    [][LET k == last'.k
       IN  /\ last'.op = "endScope" => EndScopeExact(comps[k], comps'[k])
           /\ last'.op = "endWith" =>
                  EndScopeExact([comps[k] EXCEPT !.code = Append(@, OpCode.OP_CLOSE_FILE)],
                                comps'[k])]_vars

Min(a, b) == IF a < b THEN a ELSE b

\* A local is at depth -1 from addLocal until a defineVariable gives it the scope depth.
DepthDiscipline ==
    \A k \in 1..Min(Len(comps), Len(comps')) :
        LET old == comps[k].locals
            new == comps'[k].locals
        IN  \A i \in 1..Len(new) :
                IF i > Len(old) THEN last'.op = "with" \/ new[i].depth = -1
                ELSE IF old[i].depth # -1 THEN new[i].depth = old[i].depth
                ELSE new[i].depth # -1 =>
                         /\ last'.op \in {"define", "endCompiler", "endClass"}
                         /\ new[i].depth = comps'[k].scopeDepth

\* The step referenced a name that resolved to a local whose depth is -1.
ReadsUndefined ==
    /\ last'.op \in {"name", "this", "class"}
    /\ last'.res.kind = "local"
    /\ comps'[last'.k].locals[last'.res.arg + 1].depth = -1

\* C5 as stated: a local is at depth -1 from its declaration until defineVariable sets its
\* depth, and every reference resolving to a local at depth -1 reports the error.
C5_ReadUndefinedAlwaysReports ==
    [][/\ DepthDiscipline
       /\ ReadsUndefined => MsgOwnInit \in Range(parser'.msgs)]_vars

\* C5: a local is at depth -1 from its declaration until defineVariable sets its depth,
\* and a reference resolving to a local at depth -1 reports the error unless the parser is
\* already in panic mode, when the message is dropped and hadError is already set.
C5_ReadUndefinedReportsUnlessPanic ==
    [][/\ DepthDiscipline
       /\ ReadsUndefined =>
              /\ parser'.hadError
              /\ MsgOwnInit \in Range(parser'.msgs) <=> ~last'.res.panic]_vars

\* A local read in its own initializer, and the error printed.
C5_Witness ==
    /\ last.op = "name"
    /\ last.res.kind = "local"
    /\ comps[last.k].locals[last.res.arg + 1].depth = -1
    /\ MsgOwnInit \in Range(parser.msgs)

(***************************************************************************)
(* Properties of the expression parser.                                    *)
(***************************************************************************)
\* C7: an assignment is compiled only for a target that a rule given canAssign from a
\* precedence <= PREC_ASSIGNMENT parsed; a target that is the operand of prefix ++/-- or
\* of any operator of higher precedence has none compiled, and the `=` that follows it is
\* reported as "Invalid assignment target." (unless an earlier error already silenced
\* the parser).
C7_AssignOnlyAtLowPrecedence ==
    out.done =>
        \A e \in out.log :
            (e.rule = "prefix" \/ ~e.low) =>
                /\ ~e.assigned
                /\ e.panic \/ MsgTarget \in Range(parser.msgs)

BinaryBytes(op) ==
    CASE op = "+" -> <<OpCode.OP_ADD>>
      [] op = "-" -> <<OpCode.OP_NEGATE, OpCode.OP_ADD>>
      [] op = "**" -> <<OpCode.OP_POW>>

\* The code of reading the i-th distinct global of a statement.
GetGlobal(i) == <<OpCode.OP_GET_GLOBAL, i>>

\* C8: for operands x, y, z, the code of `x ** y ** z` is the code of x, y, z followed by
\* OP_POW OP_POW, and the code of `x o y p z` for other binary operators o, p of one
\* precedence is the code of x, y, o, z, p.
C8_PowRightAssociative ==
    (/\ out.done
     /\ Len(src) = 5
     /\ {src[1], src[3], src[5]} \subseteq Names
     /\ {src[2], src[4]} \subseteq {"+", "-", "**"}
     /\ GetRule(src[2]).precedence = GetRule(src[4]).precedence)
    => LET ix == 0
           iy == IF src[3] = src[1] THEN 0 ELSE 1
           iz == IF src[5] = src[1] THEN 0 ELSE IF src[5] = src[3] THEN iy ELSE iy + 1
           x == GetGlobal(ix)
           y == GetGlobal(iy)
           z == GetGlobal(iz)
       IN  comps[1].code =
               IF src[2] = "**"
               THEN x \o y \o z \o <<OpCode.OP_POW, OpCode.OP_POW, OpCode.OP_POP>>
               ELSE x \o y \o BinaryBytes(src[2]) \o z \o BinaryBytes(src[4]) \o <<OpCode.OP_POP>>

\* How a name of a compound statement resolves in its scene.
SceneKind(name) ==
    CASE src.scene = 0 -> "global"
      [] src.scene = 1 -> IF name = "a" THEN "local" ELSE "global"
      [] src.scene = 2 -> IF name = "b" THEN "local" ELSE "upvalue"

\* The code of the innermost function holds at byte i (from 1) a read of the variable
\* name: the instruction of its kind, with the slot, upvalue or constant of that name.
ReadsAt(i, name) ==
    LET c == comps[Len(comps)]
        arg == c.code[i + 1]
    IN  /\ c.code[i] = GetOp(SceneKind(name))
        /\ CASE SceneKind(name) = "local" -> c.locals[arg + 1].name = name
             [] SceneKind(name) = "upvalue" ->
                    /\ c.upvalues[arg + 1].isLocal
                    /\ comps[Len(comps) - 1].locals[c.upvalues[arg + 1].index + 1].name = name
             [] OTHER -> c.constants[arg + 1] = StringVal(name)

\* The right-hand expression is evaluated from byte i on.
RhsAt(i) ==
    /\ ReadsAt(i, src.rhs[1])
    /\ Len(src.rhs) = 3 =>
           ReadsAt(i + 2, src.rhs[3]) /\ comps[Len(comps)].code[i + 4] = OpCode.OP_ADD

RhsLen == IF Len(src.rhs) = 1 THEN 2 ELSE 5

CompoundBytes(op) ==
    CASE op = "+=" -> <<OpCode.OP_ADD>>
      [] op = "-=" -> <<OpCode.OP_NEGATE, OpCode.OP_ADD>>
      [] op = "*=" -> <<OpCode.OP_MULTIPLY>>
      [] op = "/=" -> <<OpCode.OP_DIVIDE>>
      [] op = "&=" -> <<OpCode.OP_BITWISE_AND>>
      [] op = "^=" -> <<OpCode.OP_BITWISE_XOR>>
      [] op = "|=" -> <<OpCode.OP_BITWISE_OR>>

\* The code of the statement is: the bytes up to and with the read of the target (pre of
\* them), the right-hand expression, the operator, the store, and the OP_POP of the
\* statement.
CompoundShape(pre, store) ==
    LET code == comps[Len(comps)].code
    IN  /\ Len(code) = pre + RhsLen + Len(CompoundBytes(src.op)) + Len(store) + 1
        /\ RhsAt(pre + 1)
        /\ SubSeq(code, pre + RhsLen + 1, Len(code)) =
               CompoundBytes(src.op) \o store \o <<OpCode.OP_POP>>

\* C11: for each compound operator and each kind of target, the code reads the target's
\* current value, evaluates the right-hand expression, applies the operator's
\* instruction (OP_NEGATE then OP_ADD for -=) and stores to the target that was read: a
\* variable by the set instruction of its kind with the operand of the read, a property
\* by OP_SET_PROPERTY with the constant of the read, an element by OP_SUBSCRIPT_ASSIGN
\* after the read OP_PUSH of the element.
C11_CompoundReadEvalApplyStore ==
    out.done =>
        LET code == comps[Len(comps)].code
            constants == comps[Len(comps)].constants
            target == src.target
        IN  /\ ~parser.hadError
            /\ ReadsAt(1, target[1])
            /\ CASE Len(target) = 1 ->
                       CompoundShape(2, <<SetOp(SceneKind(target[1])), code[2]>>)
                 [] Len(target) = 3 ->
                       /\ code[3] = OpCode.OP_GET_PROPERTY_NO_POP
                       /\ constants[code[4] + 1] = StringVal(target[3])
                       /\ CompoundShape(4, <<OpCode.OP_SET_PROPERTY, code[4]>>)
                 [] Len(target) = 4 ->
                       /\ ReadsAt(3, target[3])
                       /\ code[5] = OpCode.OP_PUSH
                       /\ CompoundShape(5, <<OpCode.OP_SUBSCRIPT_ASSIGN>>)

\* The locals the body declares before its `continue`.
RECURSIVE Declared(_)
Declared(body) == IF body = <<>> THEN 0 ELSE Head(body) + Declared(Tail(body))

\* Where the loop statement places the clause a `continue` goes to: the increment, after
\* the initializer, the condition and the jump over the increment, or else the condition,
\* after the initializer.
ContinueTarget ==
    out.begin + (IF src.var THEN 1 ELSE 0)
        + (IF src.incr THEN (IF src.cond THEN 5 ELSE 0) + 3 ELSE 0)

\* The offset of the instruction the OP_LOOP at byte i (from 1) jumps to.
LoopTarget(code, i) == (i + 2) - (code[i + 1] * 256 + code[i + 2])

\* C19: the code of a `continue` is one OP_POP for each local the loop body declared and
\* none for any other local, then an OP_LOOP to the increment clause of a for loop that
\* has one and else to the condition.
C19_ContinuePopsThenLoops ==
    out.done =>
        LET code == comps[Len(comps)].code
            pops == Declared(src.body)
        IN  /\ ~parser.hadError
            /\ \A i \in 1..pops : code[out.at + i] = OpCode.OP_POP
            /\ code[out.at + pops + 1] = OpCode.OP_LOOP
            /\ LoopTarget(code, out.at + pops + 1) = ContinueTarget

\* A for loop with a variable and an increment, in a block with a local of its own, whose
\* body declares locals in two nested blocks.
C19_Witness ==
    /\ out.done
    /\ src.kind = "for" /\ src.var /\ src.incr /\ src.outer
    /\ src.body = <<2, 1>>
    /\ comps[Len(comps)].code[out.at + 4] = OpCode.OP_LOOP

\* The instruction of a prefix operator.
StepOp(op) == IF op = "++" THEN OpCode.OP_INCREMENT ELSE OpCode.OP_DECREMENT

\* The code of the statement begins: read of the variable, step, store to the variable
\* that was read.
PrefixVariableShape(code, name) ==
    /\ ReadsAt(1, name)
    /\ code[3] = StepOp(src.op)
    /\ code[4] = SetOp(SceneKind(name))
    /\ code[5] = code[2]

\* The code of the statement begins: read of the variable, read of the property that
\* keeps the instance, step, store to the property that was read.
PrefixPropertyShape(code, constants, name, property) ==
    /\ ReadsAt(1, name)
    /\ code[3] = OpCode.OP_GET_PROPERTY_NO_POP
    /\ constants[code[4] + 1] = StringVal(property)
    /\ code[5] = StepOp(src.op)
    /\ code[6] = OpCode.OP_SET_PROPERTY
    /\ code[7] = code[4]

\* The target of the prefix operator is written identifier.field.
PropertyTarget(target) == Len(target) >= 3 /\ target[2] = "." /\ target[3] \in Names

\* C18: a statement that begins with ++ or -- and compiles without error begins with an
\* identifier or identifier.field, and its code reads that target, steps it with
\* OP_INCREMENT or OP_DECREMENT and stores to the variable or property that was read;
\* with anything else after the operator the statement is an error.
C18_PrefixReadStepStore ==
    out.done =>
        LET code == comps[Len(comps)].code
            constants == comps[Len(comps)].constants
            target == src.target
        IN  IF target[1] \notin Names THEN parser.hadError
            ELSE ~parser.hadError =>
                     IF PropertyTarget(target)
                     THEN PrefixPropertyShape(code, constants, target[1], target[3])
                     ELSE PrefixVariableShape(code, target[1])

\* C12: once the parameter list of a function is compiled, if no error was reported the
\* function has arity non-optional parameters followed by arityOptional optional ones,
\* at most 255 in all; a non-optional parameter after an optional one is a compile error;
\* and OP_DEFINE_OPTIONAL is the last byte of the code before the body, and emitted
\* once, if the function has an optional parameter, and is not emitted otherwise.
C12_ParametersOrderedAndCounted ==
    Top.kind = "body" =>
        LET f == comps[Len(comps)]
            defines == {i \in 1..Len(f.code) : f.code[i] = OpCode.OP_DEFINE_OPTIONAL}
        IN  /\ ~parser.hadError =>
                   /\ f.arity + f.arityOptional = Len(src)
                   /\ f.arity + f.arityOptional <= 255
                   /\ \A i \in 1..Len(src) : src[i] <=> i > f.arity
            /\ (\E i, j \in 1..Len(src) : i < j /\ src[i] /\ ~src[j]) => parser.hadError
            /\ f.arityOptional = Cardinality({i \in 1..Len(src) : src[i]})
            /\ defines = IF f.arityOptional > 0 THEN {Len(f.code)} ELSE {}

\* A parameter list of non-optional and then optional parameters, compiled without error.
C12_Witness ==
    /\ Top.kind = "body"
    /\ ~parser.hadError
    /\ comps[Len(comps)].arity > 0
    /\ comps[Len(comps)].arityOptional > 1

\* The current token at position pos of the source.
TokenAt(pos) == IF pos <= Len(src) THEN src[pos] ELSE "EOF"

C14_NullIffErrorReported ==
    [][/\ parser'.hadError <=> (parser.hadError \/ parser'.msgs # <<>>)
       /\ parser'.panicMode => parser'.hadError
       /\ last'.op = "compile" => (out'.function = NULL <=> parser'.hadError)
       /\ ctx'[Len(ctx')].kind # "crashed"]_vars

\* The next step of compile() allocates: newFunction in initCompiler, a statement of a
\* body, or endCompiler.
AllocationPoint == (Top.kind = "initCompiler" /\ Top.n = 1) \/ Top.kind = "body"

\* C15: wherever compile() can allocate, vm->compiler is the innermost compiler whose
\* endCompiler has not run, the enclosing links from it reach every such compiler, and
\* each of them has its function, but for the one whose initCompiler is about to
\* create it.
C15_CompilerChainRooted ==
    AllocationPoint =>
        /\ comps # <<>>
        /\ vm.compiler = Len(comps)
        /\ GrayCompilerRoots(comps, vm.compiler) = 1..Len(comps)
        /\ \A k \in 1..Len(comps) :
               comps[k].function \/ (k = Len(comps) /\ Top.kind = "initCompiler")

\* The body of a function nested in a function allocates, after a function nested in it
\* has ended.
C15_Witness ==
    /\ Top.kind = "body"
    /\ Len(comps) = 2
    /\ last.op = "unlink"
    /\ comps[2].constants # <<>>

\* Slot 0 is named `this` in methods and initializers and has no name in functions and
\* static methods.
SlotZeroNamed ==
    \A k \in 1..Len(comps) :
        /\ comps[k].type \in {"METHOD", "INITIALIZER"} => comps[k].locals[1].name = "this"
        /\ comps[k].type \in {"FUNCTION", "STATIC"} => comps[k].locals[1].name = ""

\* The step resolved an identifier, `this` or the receiver of `super`.
Resolved == last'.op \in {"name", "this", "super"}

\* No name resolves to the unnamed slot 0 of the function that uses it.
SlotZeroUnreferable ==
    (Resolved /\ comps'[last'.k].type \in {"FUNCTION", "STATIC"})
        => ~(last'.res.kind = "local" /\ last'.res.arg = 0)

\* `this` outside a class or in a static method is an error, and emits nothing.
ThisRejected ==
    (last'.op = "this" /\ (classes = <<>> \/ TopClass.staticMethod))
        => /\ parser'.hadError
           /\ parser'.msgs # <<>> \/ parser.panicMode
           /\ last'.res.kind = "none"

\* In a static method neither `this` nor `super` reads a receiver.
StaticReadsNoReceiver ==
    (last'.op \in {"this", "super"} /\ classes # <<>> /\ TopClass.staticMethod)
        => last'.res.kind = "none"

\* C16: slot 0 is `this` in methods and initializers and unnamed, and never resolved to,
\* in functions and static methods; `this` is an error outside a class and in a static
\* method; the code of a static method reads no receiver.
C16_StaticMethodReadsNoReceiver ==
    [][SlotZeroNamed' /\ SlotZeroUnreferable /\ ThisRejected /\ StaticReadsNoReceiver]_vars

\* The step called identifierConstant for a name it was called for before.
CalledBefore == \E i \in 1..Len(src) : src[i].name = last'.name

\* The call returned the index of every earlier call for the name, and the pool gained
\* an entry only if there was none.
SameIndexOneEntry ==
    /\ \A i \in 1..Len(src) : src[i].name = last'.name => src[i].index = last'.res.arg
    /\ Len(comps'[1].constants) =
           Len(comps[1].constants) + (IF CalledBefore THEN 0 ELSE 1)

\* The constant at the index returned is the string of the name.
IndexHoldsName ==
    LET constant == comps'[1].constants[last'.res.arg + 1]
    IN  constant.kind = "string" /\ constant.name = last'.name

\* C17: identifierConstant returns the same index on every call for a name, the constant
\* at that index is the string of the name, and only the first call adds to the pool.
C17_IdentifierConstantIdempotent ==
    [][last'.op = "identifier" => (SameIndexOneEntry /\ IndexHoldsName)]_vars

\* C17, amended: the constant at the index is the string of the name unless the first
\* call for the name found 256 constants in the pool; then the error is reported and the
\* index is 0.
C17_IdentifierConstantIdempotentUnlessFull ==
    [][last'.op = "identifier" =>
          /\ SameIndexOneEntry
          /\ \/ IndexHoldsName
             \/ /\ Len(comps'[1].constants) > UINT8_COUNT
                /\ last'.res.arg = 0
                /\ parser'.hadError]_vars

\* A name read three times from a pool that was full at its first read, and another name
\* read twice from a pool with room.
C17_Witness ==
    /\ last.op = "identifier"
    /\ Len(comps[1].constants) > UINT8_COUNT
    /\ \E i, j \in 1..Len(src) : i < j /\ j < Len(src) /\ src[i].name = src[j].name
                                  /\ src[j].name = last.name /\ src[i].index = 0
    /\ \E i, j \in 1..Len(src) : i < j /\ src[i].name = src[j].name
                                  /\ src[i].index = UINT8_MAX

\* C20: number.toString with an argument signals one runtime error, returns EMPTY_VAL and
\* interns no string; without arguments it returns a string, interned in the VM, and
\* signals no error.
C20_ToStringArgumentCount ==
    [][last'.op = "toString" =>
          IF last'.k # 0
          THEN /\ Len(vm'.errors) = Len(vm.errors) + 1
               /\ out'.value = EMPTY_VAL
               /\ vm'.strings = vm.strings
          ELSE /\ vm'.errors = vm.errors
               /\ out'.value.kind = "string"
               /\ out'.value.name \in vm'.strings]_vars

\* A call with arguments has failed after calls without arguments returned the strings
\* of the least number and of 0.
C20_Witness ==
    /\ last.op = "toString"
    /\ last.k = MaxArgs
    /\ out.value = EMPTY_VAL
    /\ {Format15g(-MaxNumber), "0"} \subseteq vm.strings
    /\ vm.errors # <<>>

Present == \E i \in 1..Len(src) : src[i].kind = last.res.kind /\ src[i].name = last.res.name

\* C22: exists(k) is true exactly when k was set and not removed since, whatever keys of
\* other types the dict holds, and dict[k] gives a value in exactly that case and the
\* missing-key error otherwise.
C22_ExistsIffPresent ==
    /\ last.op = "exists" => out.value.kind = "bool" /\ out.value.name = Present
    /\ last.op = "subscript" => (Present <=> out.value.kind # "empty")
    /\ last.op = "subscript" => (Present <=> vm.errors = <<>>)

\* exists(false) answers false in a dict that holds nil, whose hash is that of false, and
\* that false was removed from.
C22_Witness ==
    /\ last.op = "exists"
    /\ last.res.kind = "bool"
    /\ ~last.res.name
    /\ ~out.value.name
    /\ Len(src) = 1
    /\ src[1].kind = "nil"
    /\ \E i \in 1..Len(vm.dict.entries) : vm.dict.entries[i].state = "tombstone"

\* The open list holds the open upvalues, each once, by strictly descending slot.
OpenListSorted ==
    /\ \A i \in DOMAIN vm.open : vm.upvalues[vm.open[i]].open
    /\ \A i \in DOMAIN vm.upvalues :
           vm.upvalues[i].open => \E j \in DOMAIN vm.open : vm.open[j] = i
    /\ \A i, j \in DOMAIN vm.open :
           i < j => vm.upvalues[vm.open[i]].slot > vm.upvalues[vm.open[j]].slot

\* The step closes at slot last'.k: the upvalues open at that slot or above are closed with
\* the value their slot had and are off the list, the ones below stay open and listed.
ClosedFrom ==
    last'.op = "close" =>
        \A i \in DOMAIN vm.upvalues :
            IF vm.upvalues[i].open /\ vm.upvalues[i].slot >= last'.k
            THEN /\ vm'.upvalues[i] = [open |-> FALSE, slot |-> vm.upvalues[i].slot,
                                       value |-> vm.stack[vm.upvalues[i].slot]]
                 /\ \A j \in DOMAIN vm'.open : vm'.open[j] # i
            ELSE /\ vm'.upvalues[i] = vm.upvalues[i]
                 /\ vm.upvalues[i].open => \E j \in DOMAIN vm'.open : vm'.open[j] = i

\* C23: the open-upvalue list is always sorted by strictly descending slot, one upvalue a
\* slot, and closing at a slot closes exactly the open upvalues at that slot or above, each
\* with the value of its slot, and unlinks exactly those.
C23_OpenUpvaluesSortedAndClosed == []OpenListSorted /\ [][ClosedFrom]_vars

\* A return closed two upvalues, captured lowest slot last, and left the one below open.
C23_Witness ==
    /\ last.op = "close"
    /\ last.k = 2
    /\ Len(vm.upvalues) = 3
    /\ vm.open = <<3>>
    /\ vm.upvalues[3].slot = 1
    /\ ~vm.upvalues[1].open /\ vm.upvalues[1].slot = 2 /\ vm.upvalues[1].value = 1
    /\ ~vm.upvalues[2].open /\ vm.upvalues[2].slot = 3

\* The statement of the step is a break or continue of compiler last'.k, which is in no
\* loop of its own.
OutsideLoop ==
    /\ last'.op \in {"break", "continue"}
    /\ ~\E i \in DOMAIN loops : loops[i].k = last'.k

\* C24: a break or continue outside every loop of its function reports its error, emits
\* nothing and reads no loop record.
C24_OutsideLoopRejected ==
    [][OutsideLoop =>
           /\ parser'.hadError
           /\ ~parser.panicMode =>
                  parser'.msgs = <<IF last'.op = "break" THEN MsgBreak ELSE MsgContinue>>
           /\ comps'[last'.k].code = comps[last'.k].code
           /\ ctx'[Len(ctx')].kind # "crashed"]_vars

\* The statement of the step adds a local to a locals array that is full.
AddsToFull ==
    /\ last'.op \in {"var", "class", "with"}
    /\ Len(comps[1].locals) = UINT8_COUNT

\* C25: every compiler has at least one local and never more than UINT8_COUNT, and a
\* statement that adds a local to a full array reports the error, unless it has reported
\* a redeclaration before, and adds none.
C25_LocalCountBounded ==
    [][/\ \A k \in DOMAIN comps' : Len(comps'[k].locals) \in 1..UINT8_COUNT
       /\ ctx'[Len(ctx')].kind # "crashed"
       /\ AddsToFull /\ ~parser.panicMode => parser'.msgs \in {<<MsgLocals>>, <<MsgDup>>}]_vars

\* Byte i, counted from 0, is of a jump that a break statement emitted for the loop that
\* ends, or an operand byte of the exit jump of that loop.
OfLoopJump(i) ==
    \/ \E b \in breaks : b.loop = Len(loops) /\ i \in b.pos..b.pos + 2
    \/ TopLoop.end # -1 /\ i \in {TopLoop.end, TopLoop.end + 1}

\* C26: the end of a loop changes no byte of the chunk but those of the jumps of the break
\* statements of this loop (and the operand of the loop's own exit jump).
C26_EndLoopPatchesBreaksOnly ==
    [][last'.op = "endLoop" =>
           \A i \in 0..Len(comps[1].code) - 1 :
               comps'[1].code[i + 1] # comps[1].code[i + 1] => OfLoopJump(i)]_vars

\* The number of names the statement of the step declares in a local scope.
DeclaredNames == IF last'.op \in {"var", "class", "function"} THEN 1 ELSE 0

\* C27: a whole statement at depth d changes the number of locals by the number of names
\* it declares at depth d (none at depth 0, where names are globals), leaves no local
\* deeper than d and none undefined, and a class in a local scope leaves its name as
\* the last local.
C27_StatementLeavesItsNames ==
    [][last'.op \in {"var", "class", "function", "with", "for", "block"} =>
           LET d == comps'[1].scopeDepth
               locals == comps'[1].locals
               before == IF last'.op = "block"
                         THEN Cardinality({i \in DOMAIN comps[1].locals :
                                              comps[1].locals[i].depth <= d})
                         ELSE Len(comps[1].locals)
           IN  /\ Len(locals) = before + (IF d = 0 THEN 0 ELSE DeclaredNames)
               /\ \A i \in DOMAIN locals : locals[i].depth \in 0..d
               /\ last'.op = "class" /\ d > 0 =>
                      locals[Len(locals)].name = last'.name]_vars

\* The loop on top of ctx goes into another iteration after one that left the number of
\* tokens as it was.
IterationStuck ==
    /\ Top.n = 1
    /\ Len(ctx') >= Len(ctx)
    /\ ctx'[Len(ctx)].kind = Top.kind
    /\ Len(src) >= Top.arg

\* compile() is inside one of its loops until it has returned.
InALoop ==
    out.done \/ Top.kind \in {"compile", "top", "block", "fun", "class", "trait", "sync"}

\* C28: no loop of compile() begins an iteration after one that consumed no token, and
\* compile() returns.
C28_CompileTerminates == [][~IterationStuck]_vars /\ []InALoop /\ <>(out.done)

\* compile() has returned from a text that took it through a class body, a method body
\* and synchronize.
C28_Witness ==
    /\ out.done
    /\ parser.hadError
    /\ \E i \in DOMAIN comps[1].code : comps[1].code[i] = OpCode.OP_METHOD

\* The code of the statements compiled, from the first of them.
FlowHeights == Heights(comps[1].code, NoHeights(comps[1].code), out.begin, 0)

\* C29: once every statement begun is complete, each instruction the VM can reach in
\* their code has one stack height whatever the path to it, no path pops below the height
\* at which the statements began, and the paths that reach the end of the code arrive at
\* that height.
C29_StackBalanced ==
    (Len(ctx) = 1 /\ ~parser.hadError) =>
        /\ FlowHeights.ok
        /\ FlowHeights.at[Len(comps[1].code)] \in {-1, 0}

\* The locals a step discards: those on top of the array that are deeper than depth.
RECURSIVE Discarded(_, _, _)
Discarded(locals, depth, i) ==
    IF i >= 1 /\ locals[i].depth > depth THEN 1 + Discarded(locals, depth, i - 1) ELSE 0

\* C30: the instruction endScope, break or continue emits for a local that a closure has
\* captured is OP_CLOSE_UPVALUE.
C30_CapturedLocalsClosed ==
    [][last'.op \in {"endScope", "break", "continue"} =>
          LET locals == comps[1].locals
              depth == IF last'.op = "endScope" THEN comps[1].scopeDepth - 1
                       ELSE TopLoop.scopeDepth
          IN  \A i \in 1..Discarded(locals, depth, Len(locals)) :
                  locals[Len(locals) - i + 1].isUpvalue =>
                      Appended(1)[i] = OpCode.OP_CLOSE_UPVALUE]_vars

\* C6: a constant pool never holds more than 256 entries, and a makeConstant request
\* made when the pool is full reports "Too many constants in one chunk." and adds nothing.
C6_PoolAtMost256 ==
    [][/\ \A k \in 1..Len(comps') : Len(comps'[k].constants) <= UINT8_COUNT
       /\ (last'.op = "number" /\ Len(comps[last'.k].constants) >= UINT8_COUNT) =>
              /\ MsgConstants \in Range(parser'.msgs)
              /\ comps'[last'.k].constants = comps[last'.k].constants]_vars

\* C9: a `{` at statement position is compiled as a dict expression statement when `}` and
\* `;` follow it or when the second token after it is `:`, and as a block otherwise; the
\* dict is then parsed from the `{` and the block from the first token after it, each
\* followed by the tokens of the source in order.
C9_BraceDictOrBlock ==
    out.done =>
        LET isDict == \/ src[1].lexeme = "}" /\ src[2].lexeme = ";"
                      \/ src[2].lexeme = ":"
        IN  /\ out.kind = IF isDict THEN "dict" ELSE "block"
            /\ IF out.kind = "dict"
               THEN out.current = "{" /\ out.next = <<src[1].lexeme, src[2].lexeme>>
               ELSE /\ out.previous = "{"
                    /\ out.current = src[1].lexeme
                    /\ out.next = <<src[2].lexeme>>

\* The decoding of a string read from left to right: an escape sequence becomes the byte
\* it denotes, any other backslash sequence and any other byte is copied.
RECURSIVE Decoded(_)
Decoded(string) ==
    IF string = <<>> THEN <<>>
    ELSE IF string[1] = 92 /\ Len(string) >= 2
    THEN (IF Escape(string[2]) # -1 THEN <<Escape(string[2])>> ELSE <<92, string[2]>>)
         \o Decoded(SubSeq(string, 3, Len(string)))
    ELSE <<string[1]>> \o Decoded(Tail(string))

\* C10: parseString replaces each escape sequence by the byte it denotes, copies every
\* other backslash sequence and every other byte, and returns the length of the result.
C10_ParseStringDecodes ==
    out.done => out.string = Decoded(src) /\ out.length = Len(Decoded(src))

====
